---- MODULE Spec2Model ----
(***************************************************************************)
(* A model of MonPhare (tanguc/kanongraph): the version-constraint algebra *)
(* (src/src/types.rs), the dependency graph (src/src/graph/types.rs), the  *)
(* analyser passes (src/src/analyzer/conflict.rs) and the scan             *)
(* orchestrator (src/src/lib.rs, src/src/parser/hcl.rs).                   *)
(*                                                                         *)
(* Each subsystem has its own specification over its own variables; the    *)
(* variables of the other subsystems stay at their initial value.          *)
(***************************************************************************)
EXTENDS Integers, Sequences, FiniteSets, TLC

VARIABLES
    \* constraint engine: the two constraints under comparison and the answers
    lhs, rhs, overlap, conflict,
    \* dependency graph: two graphs under assembly, the result of merging each
    \* into a clone of the other, and the last add_edge call with its answer
    graphs, merged, last_edge,
    \* analyser: the reference lists handed to analyze, the analysis options
    \* and the AnalysisResult (<<>> until analyze has run), and the
    \* AnalysisResult of a second run over the same lists
    all_modules, all_providers, config, analysis, rerun,
    \* orchestrator: the batch handed to the scanner (entry point, repositories
    \* and options), the scan in progress and the Result the run returns
    batch, progress, outcome,
    \* clone cache: the clock, the HEAD of each remote, the cache directory
    \* (per cache key the working tree and the metadata file) and the record
    \* of the last call (<<>> when none)
    clock, remote, disk, done,
    \* fan-out of scan_repositories: the futures of the batch
    tasks,
    \* repository discovery: the call in progress (<<>> when none) and the
    \* file at the discovery cache path (<<>> when absent)
    discovery, cache_file,
    \* source parser: the text of a source attribute and what parse_source
    \* and canonical_id made of it (<<>> until they have run)
    source_text, source_parsed

cvars == <<lhs, rhs, overlap, conflict>>
gvars == <<graphs, merged, last_edge>>
avars == <<all_modules, all_providers, config, analysis, rerun>>
svars == <<batch, progress, outcome>>
kvars == <<clock, remote, disk, done>>
fvars == <<tasks>>
dvars == <<discovery, cache_file>>
pvars == <<source_text, source_parsed>>
vars == <<lhs, rhs, overlap, conflict, graphs, merged, last_edge,
          all_modules, all_providers, config, analysis, rerun,
          batch, progress, outcome, clock, remote, disk, done, tasks,
          discovery, cache_file, source_text, source_parsed>>

\* the parts of the state a specification of another part leaves at rest
ConstraintIdle ==
    lhs = <<>> /\ rhs = <<>> /\ overlap = <<>> /\ conflict = <<>>

GraphIdle ==
    graphs = <<>> /\ merged = <<>> /\ last_edge = <<>>

AnalyserIdle ==
    /\ all_modules = <<>> /\ all_providers = <<>> /\ config = <<>>
    /\ analysis = <<>> /\ rerun = <<>>

ScanIdle ==
    batch = <<>> /\ progress = <<>> /\ outcome = <<>>

CacheIdle ==
    clock = 0 /\ remote = <<>> /\ disk = <<>> /\ done = <<>>

FanoutIdle ==
    tasks = <<>>

DiscoveryIdle ==
    discovery = <<>> /\ cache_file = <<>>

SourceIdle ==
    source_text = <<>> /\ source_parsed = <<>>

(***************************************************************************)
(* Bounds                                                                  *)
(***************************************************************************)
\* largest version component written in a constraint
MaxComp == 1
\* largest number of atoms in a constraint under comparison
MaxAtoms == 1

(***************************************************************************)
(* Versions (semver::Version): major.minor.patch plus a pre-release tag.   *)
(* u64::MAX is the top of the component order: the largest integer of the  *)
(* checker stands for it.  No bounded input writes it, so next_version and *)
(* pessimistic_upper_bound never add 1 to it.                              *)
(***************************************************************************)
U64Max == 2147483647

\* pre-release tags in semver precedence; the empty tag (a release) is greatest
PreOrder == <<"0", "alpha", "beta", "">>

PreRank(p) == CHOOSE i \in DOMAIN PreOrder : PreOrder[i] = p

\* semver::Version::new(major, minor, patch): a release, no pre-release tag
VersionNew(major, minor, patch) ==
    [major |-> major, minor |-> minor, patch |-> patch, pre |-> ""]

\* Ord for semver::Version: major, minor, patch, then pre-release precedence
VLt(v, w) ==
    \/ v.major < w.major
    \/ v.major = w.major /\ v.minor < w.minor
    \/ v.major = w.major /\ v.minor = w.minor /\ v.patch < w.patch
    \/ v.major = w.major /\ v.minor = w.minor /\ v.patch = w.patch
       /\ PreRank(v.pre) < PreRank(w.pre)

VLe(v, w) == v = w \/ VLt(v, w)

\* next_version: for a strict lower bound
next_version(v) == VersionNew(v.major, v.minor, v.patch + 1)

\* prev_version: for a strict upper bound
prev_version(v) ==
    IF v.patch > 0 THEN VersionNew(v.major, v.minor, v.patch - 1)
    ELSE IF v.minor > 0 THEN VersionNew(v.major, v.minor - 1, U64Max)
    ELSE IF v.major > 0 THEN VersionNew(v.major - 1, U64Max, U64Max)
    ELSE VersionNew(0, 0, 0)

\* pessimistic_upper_bound: the exclusive upper bound of ~> for 3, 2, 1 parts
pessimistic_upper_bound(v, parts) ==
    IF parts = 3 THEN VersionNew(v.major, v.minor + 1, 0)
    ELSE IF parts = 2 THEN VersionNew(v.major + 1, 0, 0)
    ELSE VersionNew(U64Max, U64Max, U64Max)

(***************************************************************************)
(* Atoms (VersionRange) and constraints (Constraint.ranges)                *)
(***************************************************************************)
\* VersionRange::contains
contains(range, version) ==
    CASE range.op = "Exact" -> version = range.version
      [] range.op = "GreaterThan" -> VLt(range.version, version)
      [] range.op = "GreaterThanOrEqual" -> VLe(range.version, version)
      [] range.op = "LessThan" -> VLt(version, range.version)
      [] range.op = "LessThanOrEqual" -> VLe(version, range.version)
      [] range.op = "NotEqual" -> version # range.version
      [] range.op = "Pessimistic" ->
            /\ VLe(range.version, version)
            /\ VLt(version, pessimistic_upper_bound(range.version, range.parts))

\* Constraint::is_satisfied_by
is_satisfied_by(c, version) ==
    \A i \in DOMAIN c : contains(c[i], version)

\* one step of the fold of Constraint::effective_bounds over an atom
BoundsStep(mm, range) ==
    LET min == mm[1]
        max == mm[2]
        v == range.version
    IN CASE range.op = "Exact" -> <<v, v>>
         [] range.op = "GreaterThan" ->
                IF VLe(min, v) THEN <<next_version(v), max>> ELSE mm
         [] range.op = "GreaterThanOrEqual" ->
                IF VLt(min, v) THEN <<v, max>> ELSE mm
         [] range.op = "LessThan" ->
                IF VLe(v, max) THEN <<min, prev_version(v)>> ELSE mm
         [] range.op = "LessThanOrEqual" ->
                IF VLt(v, max) THEN <<min, v>> ELSE mm
         [] range.op = "NotEqual" -> mm
         [] range.op = "Pessimistic" ->
                LET lo == IF VLt(min, v) THEN v ELSE min
                    upper == pessimistic_upper_bound(v, range.parts)
                    hi == IF VLt(upper, max) THEN upper ELSE max
                IN <<lo, hi>>

RECURSIVE FoldBounds(_, _, _)
FoldBounds(c, i, mm) ==
    IF i > Len(c) THEN mm ELSE FoldBounds(c, i + 1, BoundsStep(mm, c[i]))

\* Constraint::effective_bounds: Some((min, max)) as <<min, max>>, None as <<>>
effective_bounds(c) ==
    LET mm == FoldBounds(c, 1, <<VersionNew(0, 0, 0),
                                 VersionNew(U64Max, U64Max, U64Max)>>)
    IN IF VLe(mm[1], mm[2]) THEN mm ELSE <<>>

\* Constraint::has_overlap_with
has_overlap_with(self, other) ==
    LET self_bounds == effective_bounds(self)
        other_bounds == effective_bounds(other)
    IN IF self_bounds # <<>> /\ other_bounds # <<>>
       THEN ~(VLt(self_bounds[2], other_bounds[1])
              \/ VLt(other_bounds[2], self_bounds[1]))
       ELSE TRUE

\* Constraint::conflicts_with
conflicts_with(self, other) == ~has_overlap_with(self, other)

(***************************************************************************)
(* References (ModuleSource, ModuleRef, ProviderRef, RuntimeRef).  An      *)
(* Option is <<>> for None and <<x>> for Some(x).                          *)
(***************************************************************************)
RegistrySource(hostname, namespace, name, provider) ==
    [kind |-> "Registry", hostname |-> hostname, namespace |-> namespace,
     name |-> name, provider |-> provider]

\* a local path is the tuple of its "/"-separated parts
LocalSource(path) == [kind |-> "Local", path |-> path]

GitSource(host, url, ref_, subdir) ==
    [kind |-> "Git", host |-> host, url |-> url, ref_ |-> ref_, subdir |-> subdir]

\* ModuleSource::canonical_id: the formatted string as the tuple of its parts
canonical_id(source) ==
    CASE source.kind = "Registry" ->
            <<source.hostname, source.namespace, source.name, source.provider>>
      [] source.kind = "Git" ->
            <<source.host, source.ref_,
              IF source.subdir # <<>> /\ source.subdir[1] # "" THEN source.subdir
              ELSE <<>> >>
      [] source.kind = "Local" -> <<"local://", source.path>>

\* ModuleSource::is_local
is_local(source) == source.kind = "Local"

ModuleRef(name, source, version_constraint, file_path, repository) ==
    [name |-> name, source |-> source, version_constraint |-> version_constraint,
     file_path |-> file_path, line_number |-> 0, repository |-> repository]

ProviderRef(name, source, version_constraint, file_path, repository) ==
    [name |-> name, source |-> source, version_constraint |-> version_constraint,
     file_path |-> file_path, line_number |-> 0, repository |-> repository]

RuntimeRef(name, version, file_path, repository) ==
    [name |-> name, version |-> version, source |-> "terraform",
     file_path |-> file_path, line_number |-> 0, repository |-> repository]

\* ProviderRef::qualified_source
qualified_source(provider) ==
    IF provider.source # <<>> THEN provider.source[1]
    ELSE <<"hashicorp", provider.name>>

\* Option<String>::as_deref().unwrap_or("local")
RepoOrLocal(repository) == IF repository # <<>> THEN repository[1] ELSE "local"

(***************************************************************************)
(* The dependency graph (DependencyGraph): petgraph's node and edge lists  *)
(* (a NodeIndex is a position in nodes), the NodeId index and the VCS      *)
(* metadata map.                                                           *)
(***************************************************************************)
EdgeType == {"ModuleDependsOn", "ModuleRequiresProvider", "ProviderAlias",
             "LocalModuleRef"}

\* DependencyGraph::module_node_id
module_node_id(module) ==
    <<"module", RepoOrLocal(module.repository), canonical_id(module.source),
      module.name>>

\* DependencyGraph::provider_node_id
provider_node_id(provider) ==
    <<"provider", RepoOrLocal(provider.repository), qualified_source(provider)>>

\* format!("runtime:{}", runtime.name)
runtime_node_id(runtime) == <<"runtime", runtime.name>>

\* DependencyGraph::new
NewGraph ==
    [nodes |-> <<>>, edges |-> <<>>, node_index |-> <<>>, vcs_metadata |-> <<>>]

\* self.inner.add_node(node) followed by self.node_index.insert(id, idx)
InsertNode(g, node) ==
    [g EXCEPT !.nodes = Append(@, node),
              !.node_index = (node.id :> (Len(g.nodes) + 1)) @@ @]

\* DependencyGraph::add_module
add_module(g, module) ==
    LET node_id == module_node_id(module)
    IN IF node_id \in DOMAIN g.node_index THEN g
       ELSE InsertNode(g, [kind |-> "Module", id |-> node_id, ref |-> module])

\* DependencyGraph::add_provider
add_provider(g, provider) ==
    LET node_id == provider_node_id(provider)
    IN IF node_id \in DOMAIN g.node_index THEN g
       ELSE InsertNode(g, [kind |-> "Provider", id |-> node_id, ref |-> provider])

\* DependencyGraph::add_runtime: the node is added without looking the id up
add_runtime(g, runtime) ==
    InsertNode(g, [kind |-> "Runtime", id |-> runtime_node_id(runtime),
                   ref |-> runtime])

\* petgraph find_edge(from_idx, to_idx): an edge of any type between the two
find_edge(g, from_idx, to_idx) ==
    \E i \in DOMAIN g.edges :
        g.edges[i].source = from_idx /\ g.edges[i].target = to_idx

\* the return value of DependencyGraph::add_edge
add_edge_returns(g, from, to, edge_type) ==
    /\ from \in DOMAIN g.node_index
    /\ to \in DOMAIN g.node_index
    /\ ~find_edge(g, g.node_index[from], g.node_index[to])

\* DependencyGraph::add_edge
add_edge(g, from, to, edge_type) ==
    IF add_edge_returns(g, from, to, edge_type)
    THEN [g EXCEPT !.edges = Append(@, [source |-> g.node_index[from],
                                        target |-> g.node_index[to],
                                        weight |-> edge_type])]
    ELSE g

\* DependencyGraph::set_vcs_metadata
set_vcs_metadata(g, node_id, vcs_id) ==
    [g EXCEPT !.vcs_metadata = (node_id :> vcs_id) @@ @]

\* DependencyGraph::merge, first loop: the nodes of the other graph
RECURSIVE MergeNodes(_, _, _)
MergeNodes(g, other, i) ==
    IF i > Len(other.nodes) THEN g
    ELSE LET node == other.nodes[i]
         IN MergeNodes(IF node.id \in DOMAIN g.node_index THEN g
                       ELSE InsertNode(g, node),
                       other, i + 1)

\* DependencyGraph::merge, second loop: the edges of the other graph
RECURSIVE MergeEdges(_, _, _)
MergeEdges(g, other, i) ==
    IF i > Len(other.edges) THEN g
    ELSE LET edge == other.edges[i]
             from_id == other.nodes[edge.source].id
             to_id == other.nodes[edge.target].id
         IN MergeEdges(
                IF /\ from_id \in DOMAIN g.node_index
                   /\ to_id \in DOMAIN g.node_index
                   /\ ~find_edge(g, g.node_index[from_id], g.node_index[to_id])
                THEN [g EXCEPT !.edges =
                        Append(@, [source |-> g.node_index[from_id],
                                   target |-> g.node_index[to_id],
                                   weight |-> edge.weight])]
                ELSE g,
                other, i + 1)

\* a merge whose last loop inserts the other graph's VCS metadata over the
\* receiver's
merge_overwriting_metadata(g, other) ==
    LET with_nodes == MergeNodes(g, other, 1)
        with_edges == MergeEdges(with_nodes, other, 1)
    IN [with_edges EXCEPT !.vcs_metadata = other.vcs_metadata @@ @]

\* DependencyGraph::merge
merge(g, other) ==
    LET with_nodes == MergeNodes(g, other, 1)
        with_edges == MergeEdges(with_nodes, other, 1)
    IN [with_edges EXCEPT !.vcs_metadata = @ @@ other.vcs_metadata]

(***************************************************************************)
(* Bounded inputs of the dependency graph: a module, a provider and two    *)
(* terraform blocks (each yields a runtime named "terraform").  Edges      *)
(* start at a module, as the edges of the graph builder do.                *)
(***************************************************************************)
\* largest number of nodes added to one graph
MaxNodes == 2
\* largest number of edges added to one graph
MaxEdges == 2

GraphModules ==
    {ModuleRef("vpc", RegistrySource("registry.terraform.io", "terraform-aws-modules",
                                     "vpc", "aws"), <<>>, "main.tf", <<"a">>)}

GraphProviders ==
    {ProviderRef("aws", <<<<"hashicorp", "aws">>>>, <<>>, "versions.tf", <<"a">>)}

GraphRuntimes ==
    {RuntimeRef("terraform", <<>>, "versions.tf", <<"a">>),
     RuntimeRef("terraform", <<>>, "main.tf", <<"b">>)}

\* the edge types the graph builder adds
GraphEdgeTypes == {"ModuleRequiresProvider", "LocalModuleRef"}

GraphNodeIds ==
    {module_node_id(m) : m \in GraphModules}
        \cup {provider_node_id(p) : p \in GraphProviders}
        \cup {runtime_node_id(r) : r \in GraphRuntimes}

\* the edges of a graph as (from NodeId, to NodeId, type) triples
TypedEdges(g) ==
    {<<g.nodes[g.edges[i].source].id, g.nodes[g.edges[i].target].id,
       g.edges[i].weight>> : i \in DOMAIN g.edges}

InitGraph ==
    /\ DiscoveryIdle
    /\ SourceIdle
    /\ CacheIdle
    /\ FanoutIdle
    /\ ConstraintIdle
    /\ AnalyserIdle
    /\ ScanIdle
    /\ graphs = [i \in 1..2 |-> NewGraph]
    /\ merged = <<>>
    /\ last_edge = <<>>

AddModule(i) ==
    /\ merged = <<>>
    /\ Len(graphs[i].nodes) < MaxNodes
    /\ \E module \in GraphModules :
        graphs' = [graphs EXCEPT ![i] = add_module(@, module)]
    /\ last_edge' = <<>>
    /\ UNCHANGED merged
    /\ UNCHANGED <<cvars, avars, svars, kvars, fvars, dvars, pvars>>

AddProvider(i) ==
    /\ merged = <<>>
    /\ Len(graphs[i].nodes) < MaxNodes
    /\ \E provider \in GraphProviders :
        graphs' = [graphs EXCEPT ![i] = add_provider(@, provider)]
    /\ last_edge' = <<>>
    /\ UNCHANGED merged
    /\ UNCHANGED <<cvars, avars, svars, kvars, fvars, dvars, pvars>>

AddRuntime(i) ==
    /\ merged = <<>>
    /\ Len(graphs[i].nodes) < MaxNodes
    /\ \E runtime \in GraphRuntimes :
        graphs' = [graphs EXCEPT ![i] = add_runtime(@, runtime)]
    /\ last_edge' = <<>>
    /\ UNCHANGED merged
    /\ UNCHANGED <<cvars, avars, svars, kvars, fvars, dvars, pvars>>

AddEdge(i) ==
    /\ merged = <<>>
    /\ Len(graphs[i].edges) < MaxEdges
    /\ \E from \in {module_node_id(m) : m \in GraphModules},
          to \in GraphNodeIds, edge_type \in GraphEdgeTypes :
        /\ graphs' = [graphs EXCEPT ![i] = add_edge(@, from, to, edge_type)]
        /\ last_edge' =
            <<[graph |-> i, from |-> from, to |-> to, edge_type |-> edge_type,
               returned |-> add_edge_returns(graphs[i], from, to, edge_type),
               endpoints |-> {from, to} \subseteq
                                {graphs[i].nodes[k].id : k \in DOMAIN graphs[i].nodes},
               same_type |-> <<from, to, edge_type>> \in TypedEdges(graphs[i])]>>
    /\ UNCHANGED merged
    /\ UNCHANGED <<cvars, avars, svars, kvars, fvars, dvars, pvars>>

\* graphs[i].merge(graphs[j]) in place
MergeInto(i, j) ==
    /\ merged = <<>>
    /\ i # j
    /\ graphs' = [graphs EXCEPT ![i] = merge(@, graphs[j])]
    /\ last_edge' = <<>>
    /\ UNCHANGED merged
    /\ UNCHANGED <<cvars, avars, svars, kvars, fvars, dvars, pvars>>

\* each graph merged into a clone of the other, of itself, and twice
MergeClones ==
    /\ merged = <<>>
    /\ merged' = <<[ab |-> merge(graphs[1], graphs[2]),
                    ba |-> merge(graphs[2], graphs[1]),
                    aa |-> merge(graphs[1], graphs[1]),
                    abb |-> merge(merge(graphs[1], graphs[2]), graphs[2])]>>
    /\ last_edge' = <<>>
    /\ UNCHANGED graphs
    /\ UNCHANGED <<cvars, avars, svars, kvars, fvars, dvars, pvars>>

NextGraph ==
    \/ \E i \in 1..2 : AddModule(i)
    \/ \E i \in 1..2 : AddProvider(i)
    \/ \E i \in 1..2 : AddRuntime(i)
    \/ \E i \in 1..2 : AddEdge(i)
    \/ \E i \in 1..2, j \in 1..2 : MergeInto(i, j)
    \/ MergeClones

SpecGraph == InitGraph /\ [][NextGraph]_vars

(***************************************************************************)
(* Merging the graphs of two repositories' scans: each graph is built with *)
(* add_module, add_provider, add_edge and set_vcs_metadata, and the two    *)
(* may hold the same NodeId with different data.                           *)
(***************************************************************************)
\* two module blocks and two provider entries of repository a that share
\* their NodeId and differ in the file that declares them
MergeModules ==
    {ModuleRef("vpc", RegistrySource("registry.terraform.io", "terraform-aws-modules",
                                     "vpc", "aws"), <<>>, file, <<"a">>) :
        file \in {"main.tf", "network.tf"}}

MergeProviders ==
    {ProviderRef("aws", <<<<"hashicorp", "aws">>>>, <<>>, file, <<"a">>) :
        file \in {"versions.tf", "providers.tf"}}

\* the VCS identifiers scan_vcs_organization marks nodes with
MergeVcsIds == {<<"vcs", "github", <<"org", "a">>>>, <<"vcs", "gitlab", <<"org", "a">>>>}

\* a graph as a scan leaves it: an optional module, an optional provider,
\* the edge between them and the VCS identifier of the module node
WithVcs(g, module, vcs_id) ==
    IF module = <<>> \/ vcs_id = <<>> THEN g
    ELSE set_vcs_metadata(g, module_node_id(module[1]), vcs_id[1])

WithEdge(g, module, provider, linked) ==
    IF module = <<>> \/ provider = <<>> \/ ~linked THEN g
    ELSE add_edge(g, module_node_id(module[1]), provider_node_id(provider[1]),
                  "ModuleRequiresProvider")

WithNodes(module, provider) ==
    IF module = <<>>
    THEN (IF provider = <<>> THEN NewGraph ELSE add_provider(NewGraph, provider[1]))
    ELSE IF provider = <<>> THEN add_module(NewGraph, module[1])
    ELSE add_provider(add_module(NewGraph, module[1]), provider[1])

ScannedGraphs ==
    {WithVcs(WithEdge(WithNodes(module, provider), module, provider, linked),
             module, vcs_id) :
        module \in {<<>>} \cup {<<m>> : m \in MergeModules},
        provider \in {<<>>} \cup {<<q>> : q \in MergeProviders},
        linked \in BOOLEAN,
        vcs_id \in {<<>>} \cup {<<v>> : v \in MergeVcsIds}}

InitMerge ==
    /\ DiscoveryIdle
    /\ SourceIdle
    /\ CacheIdle
    /\ FanoutIdle
    /\ ConstraintIdle
    /\ AnalyserIdle
    /\ ScanIdle
    /\ graphs \in [1..2 -> ScannedGraphs]
    /\ merged = <<>>
    /\ last_edge = <<>>

NextMerge ==
    \/ \E i \in 1..2, j \in 1..2 : MergeInto(i, j)
    \/ MergeClones

SpecMerge == InitMerge /\ [][NextMerge]_vars

(***************************************************************************)
(* Constraint text (Constraint.raw).  The text is the sequence of its      *)
(* comma-separated parts; a part is an operator prefix and a version text  *)
(* of one to three numeric components with an optional pre-release tag,    *)
(* or the wildcard "*".                                                    *)
(***************************************************************************)
Written(prefix, comps, pre) ==
    [prefix |-> prefix, comps |-> comps, pre |-> pre, wild |-> FALSE]

WrittenWildcard == [prefix |-> "", comps |-> <<>>, pre |-> "", wild |-> TRUE]

\* parse_version succeeds: semver::Version::parse accepts the padded text
version_parses(w) ==
    /\ ~w.wild
    /\ Len(w.comps) \in 1..3
    /\ (w.pre # "" => Len(w.comps) = 3)

\* parse_version: missing components are padded with 0
parse_version(w) ==
    [major |-> w.comps[1],
     minor |-> IF Len(w.comps) >= 2 THEN w.comps[2] ELSE 0,
     patch |-> IF Len(w.comps) >= 3 THEN w.comps[3] ELSE 0,
     pre |-> w.pre]

\* parse_single_constraint: the prefix selects the VersionRange variant
parse_single_constraint(w) ==
    [op |-> CASE w.prefix = "~>" -> "Pessimistic"
              [] w.prefix = "!=" -> "NotEqual"
              [] w.prefix = ">=" -> "GreaterThanOrEqual"
              [] w.prefix = "<=" -> "LessThanOrEqual"
              [] w.prefix = ">" -> "GreaterThan"
              [] w.prefix = "<" -> "LessThan"
              [] OTHER -> "Exact",
     version |-> parse_version(w),
     parts |-> IF w.prefix = "~>" THEN Len(w.comps) ELSE 3]

\* parse_constraint_string
parse_constraint_string(raw) ==
    [i \in DOMAIN raw |-> parse_single_constraint(raw[i])]

\* Constraint::parse: <<>> for Err, <<constraint>> for Ok
ConstraintParse(raw) ==
    IF \A i \in DOMAIN raw : version_parses(raw[i])
    THEN <<[raw |-> raw, ranges |-> parse_constraint_string(raw)]>>
    ELSE <<>>

\* Constraint::is_overly_broad
is_overly_broad(c) ==
    /\ Len(c.ranges) = 1
    /\ c.ranges[1].op = "GreaterThanOrEqual"
    /\ c.ranges[1].version.major = 0
    /\ c.ranges[1].version.minor = 0
    /\ c.ranges[1].version.patch = 0

(***************************************************************************)
(* Risky patterns (PatternChecker) over the constraint text                *)
(***************************************************************************)
\* WILDCARD_PATTERN ^\s*\*\s*$
WILDCARD_PATTERN(raw) ==
    Len(raw) = 1 /\ raw[1].wild /\ raw[1].prefix = ""

\* PRERELEASE_PATTERN -(?:alpha|beta|rc|dev|pre)\d*
PRERELEASE_PATTERN(raw) ==
    \E i \in DOMAIN raw : raw[i].pre \in {"alpha", "beta", "rc", "dev", "pre"}

\* EXACT_VERSION_PATTERN ^\s*=?\s*\d+\.\d+\.\d+\s*$
EXACT_VERSION_PATTERN(raw) ==
    /\ Len(raw) = 1
    /\ ~raw[1].wild
    /\ raw[1].prefix \in {"", "="}
    /\ Len(raw[1].comps) = 3
    /\ raw[1].pre = ""

\* PatternChecker::has_no_upper_bound
has_no_upper_bound(raw) ==
    IF \E i \in DOMAIN raw : raw[i].prefix = "~>" THEN FALSE
    ELSE LET has_lower == \E i \in DOMAIN raw : raw[i].prefix \in {">=", ">"}
             has_upper == \E i \in DOMAIN raw : raw[i].prefix \in {"<=", "<"}
         IN has_lower /\ ~has_upper

\* PatternChecker::check: the patterns found, in the order they are pushed
PatternCheck(cfg, raw) ==
    (IF WILDCARD_PATTERN(raw) THEN <<"Wildcard">> ELSE <<>>)
    \o (IF cfg.check_prerelease /\ PRERELEASE_PATTERN(raw)
        THEN <<"PreRelease">> ELSE <<>>)
    \o (IF cfg.check_exact /\ EXACT_VERSION_PATTERN(raw)
        THEN <<"ExactVersion">> ELSE <<>>)
    \o (IF cfg.check_upper_bound /\ has_no_upper_bound(raw)
        THEN <<"NoUpperBound">> ELSE <<>>)

(***************************************************************************)
(* The analyser (Analyzer).  A message is the tuple of the values its      *)
(* format string interpolates.                                             *)
(***************************************************************************)
Location(file, line, repository) ==
    [file |-> file, line |-> line, repository |-> repository]

\* the Location built from a module or provider reference
LocationOf(ref) == Location(ref.file_path, ref.line_number, ref.repository)

Finding(code, severity, message, location, related_locations, category) ==
    [code |-> code, severity |-> severity, message |-> message,
     location |-> <<location>>, related_locations |-> related_locations,
     category |-> category]

\* check_constraint_conflict with the repository comparison left out
conflict_always_warning(source, r1, r2) ==
    IF r1.version_constraint = <<>> \/ r2.version_constraint = <<>> THEN <<>>
    ELSE LET c1 == r1.version_constraint[1]
             c2 == r2.version_constraint[1]
         IN IF ~conflicts_with(c1.ranges, c2.ranges) THEN <<>>
            ELSE <<Finding("DRIFT001", "Warning", <<source, c1.raw, c2.raw>>,
                           LocationOf(r1), <<LocationOf(r2)>>,
                           "ConstraintConflict")>>

\* Analyzer::check_constraint_conflict: <<>> for None, <<finding>> for Some
check_constraint_conflict(source, r1, r2) ==
    IF r1.version_constraint = <<>> \/ r2.version_constraint = <<>> THEN <<>>
    ELSE LET c1 == r1.version_constraint[1]
             c2 == r2.version_constraint[1]
         IN IF ~conflicts_with(c1.ranges, c2.ranges) THEN <<>>
            ELSE <<Finding("DRIFT001",
                           IF r1.repository = r2.repository THEN "Error"
                           ELSE "Warning",
                           <<source, c1.raw, c2.raw>>,
                           LocationOf(r1), <<LocationOf(r2)>>,
                           "ConstraintConflict")>>

\* the pair loops of detect_module_conflicts and detect_provider_conflicts
RECURSIVE ComparePairs(_, _, _, _)
ComparePairs(source, refs, i, j) ==
    IF i > Len(refs) THEN <<>>
    ELSE IF j > Len(refs) THEN ComparePairs(source, refs, i + 1, i + 2)
    ELSE check_constraint_conflict(source, refs[i], refs[j])
            \o ComparePairs(source, refs, i, j + 1)

\* the references of one group, in list order (HashMap entry of a key)
GroupOf(refs, keys, key) ==
    LET Pick[i \in 0..Len(refs)] ==
            IF i = 0 THEN <<>>
            ELSE IF keys[i] = key THEN Append(Pick[i - 1], refs[i])
            ELSE Pick[i - 1]
    IN Pick[Len(refs)]

\* the group loop: the groups are visited in the iteration order of the map
RECURSIVE CompareGroups(_, _, _, _)
CompareGroups(refs, keys, order, k) ==
    IF k > Len(order) THEN <<>>
    ELSE LET group == GroupOf(refs, keys, order[k])
         IN (IF Len(group) < 2 THEN <<>>
             ELSE ComparePairs(order[k], group, 1, 2))
            \o CompareGroups(refs, keys, order, k + 1)

\* Analyzer::group_modules_by_source: the key of each module
ModuleKeys(modules) ==
    [i \in DOMAIN modules |-> canonical_id(modules[i].source)]

\* Analyzer::group_providers_by_source: the key of each provider
ProviderKeys(providers) ==
    [i \in DOMAIN providers |-> qualified_source(providers[i])]

\* the iteration orders a HashMap with the given keys can have
IterationOrders(keys) ==
    LET K == {keys[i] : i \in DOMAIN keys}
    IN {o \in [1..Cardinality(K) -> K] : \A i, j \in DOMAIN o : o[i] = o[j] => i = j}

\* Analyzer::detect_module_conflicts
detect_module_conflicts(modules, order) ==
    CompareGroups(modules, ModuleKeys(modules), order, 1)

\* Analyzer::detect_provider_conflicts
detect_provider_conflicts(providers, order) ==
    CompareGroups(providers, ProviderKeys(providers), order, 1)

\* concatenation of the findings pushed for each reference of a list
RECURSIVE ForEach(_, _, _)
ForEach(refs, i, found) ==
    IF i > Len(refs) THEN <<>> ELSE found[i] \o ForEach(refs, i + 1, found)

\* Analyzer::check_missing_constraints
check_missing_constraints(modules, providers) ==
    ForEach(modules, 1,
        [i \in DOMAIN modules |->
            IF modules[i].version_constraint = <<>> /\ ~is_local(modules[i].source)
            THEN <<Finding("DRIFT002", "Warning", <<"Module", modules[i].name>>,
                           LocationOf(modules[i]), <<>>, "MissingConstraint")>>
            ELSE <<>>])
    \o ForEach(providers, 1,
        [i \in DOMAIN providers |->
            IF providers[i].version_constraint = <<>>
            THEN <<Finding("DRIFT002", "Warning", <<"Provider", providers[i].name>>,
                           LocationOf(providers[i]), <<>>, "MissingConstraint")>>
            ELSE <<>>])

\* Analyzer::pattern_to_finding
pattern_to_finding(pattern, ref) ==
    Finding(CASE pattern = "Wildcard" -> "DRIFT003"
              [] pattern = "PreRelease" -> "DRIFT005"
              [] pattern = "ExactVersion" -> "DRIFT006"
              [] pattern = "NoUpperBound" -> "DRIFT007",
            IF pattern \in {"Wildcard", "NoUpperBound"} THEN "Warning" ELSE "Info",
            <<ref.name>>, LocationOf(ref), <<>>, "BestPractice")

\* the findings of one reference in Analyzer::check_risky_patterns
RiskyOf(cfg, ref) ==
    IF ref.version_constraint = <<>> THEN <<>>
    ELSE LET patterns == PatternCheck(cfg, ref.version_constraint[1].raw)
         IN [k \in DOMAIN patterns |-> pattern_to_finding(patterns[k], ref)]

\* Analyzer::check_risky_patterns
check_risky_patterns(cfg, modules, providers) ==
    ForEach(modules, 1, [i \in DOMAIN modules |-> RiskyOf(cfg, modules[i])])
    \o ForEach(providers, 1, [i \in DOMAIN providers |-> RiskyOf(cfg, providers[i])])

\* the finding of one reference in Analyzer::check_broad_constraints
BroadOf(kind, ref) ==
    IF ref.version_constraint # <<>> /\ is_overly_broad(ref.version_constraint[1])
    THEN <<Finding("DRIFT004", "Warning",
                   <<kind, ref.name, ref.version_constraint[1].raw>>,
                   LocationOf(ref), <<>>, "BroadConstraint")>>
    ELSE <<>>

\* Analyzer::check_broad_constraints
check_broad_constraints(modules, providers) ==
    ForEach(modules, 1, [i \in DOMAIN modules |-> BroadOf("Module", modules[i])])
    \o ForEach(providers, 1,
               [i \in DOMAIN providers |-> BroadOf("Provider", providers[i])])

\* the number of findings a predicate selects
CountBy(findings, field, value) ==
    Cardinality({i \in DOMAIN findings : findings[i][field] = value})

\* Analyzer::build_summary
build_summary(modules, providers, findings) ==
    [total_modules |-> Len(modules),
     total_providers |-> Len(providers),
     total_files |-> 0,
     unique_module_sources |->
        Cardinality({canonical_id(modules[i].source) : i \in DOMAIN modules}),
     unique_provider_sources |->
        Cardinality({qualified_source(providers[i]) : i \in DOMAIN providers}),
     findings_by_severity |->
        [sev \in {findings[i].severity : i \in DOMAIN findings} |->
            CountBy(findings, "severity", sev)],
     findings_by_category |->
        [cat \in {findings[i].category : i \in DOMAIN findings} |->
            CountBy(findings, "category", cat)]]

\* Analyzer::analyze, given the iteration orders of the two group maps
analyze(cfg, modules, providers, module_order, provider_order) ==
    LET findings ==
            detect_module_conflicts(modules, module_order)
            \o detect_provider_conflicts(providers, provider_order)
            \o check_missing_constraints(modules, providers)
            \o check_risky_patterns(cfg, modules, providers)
            \o check_broad_constraints(modules, providers)
    IN [findings |-> findings,
        summary |-> build_summary(modules, providers, findings)]

(***************************************************************************)
(* The graph builder (GraphBuilder::build)                                 *)
(***************************************************************************)
\* the last position of a list whose key is the given one (HashMap insert
\* and collect keep the last value written under a key)
LastWith(keys, key) ==
    CHOOSE i \in DOMAIN keys :
        keys[i] = key /\ \A j \in DOMAIN keys : keys[j] = key => j <= i

\* GraphBuilder::build_provider_map: provider name -> qualified source
build_provider_map(providers) ==
    LET names == [i \in DOMAIN providers |-> providers[i].name]
    IN [name \in {names[i] : i \in DOMAIN names} |->
            qualified_source(providers[LastWith(names, name)])]

\* the provider_ids map of build: qualified source -> NodeId
ProviderIds(providers) ==
    LET keys == ProviderKeys(providers)
    IN [key \in {keys[i] : i \in DOMAIN keys} |->
            provider_node_id(providers[LastWith(keys, key)])]

\* the Git URLs of the bounded inputs that contain "-<p>-" or "/<p>-"
UrlHints == {<<"github.com/terraform-aws-modules/terraform-aws-vpc", "aws">>}

\* provider_map.get(name).cloned().or_else(|| Some("hashicorp/<name>"))
ProviderOrHashicorp(provider_map, name) ==
    IF name \in DOMAIN provider_map THEN <<provider_map[name]>>
    ELSE << <<"hashicorp", name>> >>

\* GraphBuilder::infer_provider_for_module: <<>> for None
infer_provider_for_module(provider_map, module) ==
    CASE module.source.kind = "Registry" ->
            ProviderOrHashicorp(provider_map, module.source.provider)
      [] module.source.kind = "Git" ->
            IF <<module.source.url, "aws">> \in UrlHints
            THEN ProviderOrHashicorp(provider_map, "aws")
            ELSE IF <<module.source.url, "google">> \in UrlHints
            THEN ProviderOrHashicorp(provider_map, "google")
            ELSE IF <<module.source.url, "azurerm">> \in UrlHints
            THEN ProviderOrHashicorp(provider_map, "azurerm")
            ELSE <<>>
      [] OTHER -> <<>>

\* GraphBuilder::is_local_module_match
is_local_module_match(path, other_module) ==
    Len(path) > 0 /\ path[Len(path)] = other_module.name

\* build, phases 2, 3 and 3a: the nodes
RECURSIVE AddNodes(_, _, _, _)
AddNodes(g, kind, refs, i) ==
    IF i > Len(refs) THEN g
    ELSE AddNodes(CASE kind = "Provider" -> add_provider(g, refs[i])
                    [] kind = "Module" -> add_module(g, refs[i])
                    [] kind = "Runtime" -> add_runtime(g, refs[i]),
                  kind, refs, i + 1)

\* build, phase 4, inner loop: the LocalModuleRef edges of one module
RECURSIVE LinkLocal(_, _, _, _)
LinkLocal(g, module, modules, k) ==
    IF k > Len(modules) THEN g
    ELSE LinkLocal(IF is_local_module_match(module.source.path, modules[k])
                   THEN add_edge(g, module_node_id(module),
                                 module_node_id(modules[k]), "LocalModuleRef")
                   ELSE g,
                   module, modules, k + 1)

\* build, phase 4: the edges of every module
RECURSIVE LinkModules(_, _, _, _)
LinkModules(g, modules, providers, i) ==
    IF i > Len(modules) THEN g
    ELSE LET module == modules[i]
             provider_source ==
                infer_provider_for_module(build_provider_map(providers), module)
             provider_ids == ProviderIds(providers)
             with_provider ==
                IF provider_source # <<>> /\ provider_source[1] \in DOMAIN provider_ids
                THEN add_edge(g, module_node_id(module),
                              provider_ids[provider_source[1]],
                              "ModuleRequiresProvider")
                ELSE g
             with_local ==
                IF is_local(module.source)
                THEN LinkLocal(with_provider, module, modules, 1)
                ELSE with_provider
         IN LinkModules(with_local, modules, providers, i + 1)

\* GraphBuilder::build
build(modules, providers, runtimes) ==
    LET with_providers == AddNodes(NewGraph, "Provider", providers, 1)
        with_modules == AddNodes(with_providers, "Module", modules, 1)
        with_runtimes == AddNodes(with_modules, "Runtime", runtimes, 1)
    IN LinkModules(with_runtimes, modules, providers, 1)

(***************************************************************************)
(* The extractor's directory walk (HclParser::parse_directory) and the     *)
(* orchestrator (Scanner).  A Result is [ok |-> TRUE, value |-> v] or      *)
(* [ok |-> FALSE, error |-> kind].                                         *)
(***************************************************************************)
Ok(value) == [ok |-> TRUE, value |-> value]

Err(error) == [ok |-> FALSE, error |-> error]

\* MonPhareError::is_recoverable, over the error kinds
is_recoverable(error) ==
    error \in {"GitClone", "GitAuth", "InvalidGitUrl", "UnsupportedGitProvider",
               "HclParse", "HclStructure", "ModuleSourceParse", "VersionParse",
               "ConstraintParse", "ConfigParse", "ConfigValue", "ConfigMissing",
               "Http", "Timeout", "VcsApi"}

ParsedHcl(modules, providers, files, runtimes) ==
    [modules |-> modules, providers |-> providers, files |-> files,
     runtimes |-> runtimes]

\* ParsedHcl::merge: modules, providers and files are extended
parsed_merge(self, other) ==
    [self EXCEPT !.modules = @ \o other.modules,
                 !.providers = @ \o other.providers,
                 !.files = @ \o other.files]

\* parse_module_block: Ok(None) without a source attribute, Err when the
\* version attribute is not a constraint, Ok(Some(module)) otherwise
parse_module_block(block, file_path, repository) ==
    IF block.source = <<>> THEN Ok(<<>>)
    ELSE IF block.version # <<>> /\ ConstraintParse(block.version[1]) = <<>>
    THEN Err("HclParse")
    ELSE Ok(<<ModuleRef(block.name, block.source[1],
                        IF block.version = <<>> THEN <<>>
                        ELSE ConstraintParse(block.version[1]),
                        file_path, repository)>>)

\* parse_terraform_block: the required_providers entries and the
\* required_version attributes of the block, or the first failure
parse_terraform_block(file, repository) ==
    IF \/ \E i \in DOMAIN file.providers :
            /\ file.providers[i].version # <<>>
            /\ ConstraintParse(file.providers[i].version[1]) = <<>>
       \/ \E i \in DOMAIN file.runtimes : ConstraintParse(file.runtimes[i]) = <<>>
    THEN Err("HclParse")
    ELSE Ok([runtimes |->
                [i \in DOMAIN file.runtimes |->
                    RuntimeRef("terraform", ConstraintParse(file.runtimes[i])[1],
                               file.path, repository)],
             providers |->
                [i \in DOMAIN file.providers |->
                    ProviderRef(file.providers[i].name, file.providers[i].source,
                                IF file.providers[i].version = <<>> THEN <<>>
                                ELSE ConstraintParse(file.providers[i].version[1]),
                                file.path, repository)]])

\* parse_content, the module blocks: the first Err ends the file; a block
\* without source is skipped under continue_on_error and ends the file
\* otherwise
RECURSIVE ParseModules(_, _, _, _, _)
\* the module arm of parse_content, given what parse_module_block returned
ModuleArm(continue_on_error, file, repository, i, result, parsed) ==
    IF ~parsed.ok THEN parsed
    ELSE IF parsed.value # <<>>
    THEN ParseModules(continue_on_error, file, repository, i + 1,
            [result EXCEPT !.modules = Append(@, parsed.value[1])])
    ELSE IF ~continue_on_error THEN Err("HclParse")
    ELSE ParseModules(continue_on_error, file, repository, i + 1, result)

ParseModules(continue_on_error, file, repository, i, result) ==
    IF i > Len(file.modules) THEN Ok(result)
    ELSE ModuleArm(continue_on_error, file, repository, i, result,
                   parse_module_block(file.modules[i], file.path, repository))

\* Parser::parse_content of a file whose module blocks precede its
\* terraform block
TerraformArm(continue_on_error, with_modules, terraform) ==
    IF ~with_modules.ok THEN with_modules
    ELSE IF terraform.ok
    THEN Ok([with_modules.value EXCEPT
                !.providers = @ \o terraform.value.providers,
                !.runtimes = @ \o terraform.value.runtimes])
    ELSE IF ~continue_on_error THEN Err("HclParse")
    ELSE with_modules

parse_content(continue_on_error, file, repository) ==
    TerraformArm(continue_on_error,
                 ParseModules(continue_on_error, file, repository, 1,
                              ParsedHcl(<<>>, <<>>, <<file.path>>, <<>>)),
                 parse_terraform_block(file, repository))

\* HclParser::parse_file: the file cannot be read (Io) or is not HCL
\* (HclParse), or its blocks become references carrying the file path and
\* the repository name
parse_file(continue_on_error, file, repository) ==
    IF file.error # <<>> THEN Err(file.error[1])
    ELSE parse_content(continue_on_error, file, repository)

\* HclParser::parse_directory, the walk: a failing file is skipped (its error
\* goes to a collector that is only logged) or ends the walk
RECURSIVE WalkDir(_, _, _, _, _)
\* the match on parse_file's result inside the walk
WalkEntry(continue_on_error, files, repository, i, result, parsed) ==
    IF parsed.ok
    THEN WalkDir(continue_on_error, files, repository, i + 1,
                 parsed_merge(result, parsed.value))
    ELSE IF continue_on_error /\ is_recoverable(parsed.error)
    THEN WalkDir(continue_on_error, files, repository, i + 1, result)
    ELSE parsed

WalkDir(continue_on_error, files, repository, i, result) ==
    IF i > Len(files) THEN Ok(result)
    ELSE WalkEntry(continue_on_error, files, repository, i, result,
                   parse_file(continue_on_error, files[i], repository))

\* HclParser::parse_directory
parse_directory(continue_on_error, dir) ==
    IF ~dir.exists THEN Err("DirectoryNotFound")
    ELSE WalkDir(continue_on_error, dir.files, <<dir.name>>, 1,
                 ParsedHcl(<<>>, <<>>, <<>>, <<>>))

\* AnalysisSummary::default
SummaryDefault ==
    [total_modules |-> 0, total_providers |-> 0, total_files |-> 0,
     unique_module_sources |-> 0, unique_provider_sources |-> 0,
     findings_by_severity |-> <<>>, findings_by_category |-> <<>>]

\* *self.entry(k).or_insert(0) += v for every (k, v) of the other map
AddCounts(self, other) ==
    [k \in DOMAIN self \cup DOMAIN other |->
        (IF k \in DOMAIN self THEN self[k] ELSE 0)
        + (IF k \in DOMAIN other THEN other[k] ELSE 0)]

\* AnalysisSummary::merge
summary_merge(self, other) ==
    [self EXCEPT !.total_modules = @ + other.total_modules,
                 !.total_providers = @ + other.total_providers,
                 !.total_files = @ + other.total_files,
                 !.findings_by_severity = AddCounts(@, other.findings_by_severity),
                 !.findings_by_category = AddCounts(@, other.findings_by_category)]

\* AnalysisResult::merge
analysis_merge(self, other) ==
    [self EXCEPT !.findings = @ \o other.findings,
                 !.summary = summary_merge(@, other.summary)]

\* ScanResult::default
ScanResultDefault ==
    [modules |-> <<>>, providers |-> <<>>, runtimes |-> <<>>,
     files_scanned |-> <<>>, graph |-> NewGraph,
     analysis |-> [findings |-> <<>>, summary |-> SummaryDefault]]

\* ScanResult::merge
scan_result_merge(self, other) ==
    [self EXCEPT !.modules = @ \o other.modules,
                 !.providers = @ \o other.providers,
                 !.files_scanned = @ \o other.files_scanned,
                 !.graph = merge(@, other.graph),
                 !.analysis = analysis_merge(@, other.analysis)]

\* Scanner::scan_paths, the loop over the paths
RECURSIVE ParsePaths(_, _, _, _)
\* parse_directory(path).await? and the four extends
ExtendAll(continue_on_error, paths, i, all, parsed) ==
    IF ~parsed.ok THEN parsed
    ELSE ParsePaths(continue_on_error, paths, i + 1,
            ParsedHcl(all.modules \o parsed.value.modules,
                      all.providers \o parsed.value.providers,
                      all.files \o parsed.value.files,
                      all.runtimes \o parsed.value.runtimes))

ParsePaths(continue_on_error, paths, i, all) ==
    IF i > Len(paths) THEN Ok(all)
    ELSE ExtendAll(continue_on_error, paths, i, all,
                   parse_directory(continue_on_error, paths[i]))

\* Scanner::scan_paths, given the iteration orders of the analyser's maps
scan_paths(cfg, paths, module_order, provider_order) ==
    LET parsed == ParsePaths(cfg.continue_on_error, paths, 1,
                             ParsedHcl(<<>>, <<>>, <<>>, <<>>))
    IN IF ~parsed.ok THEN parsed
       ELSE LET all == parsed.value
            IN Ok([modules |-> all.modules,
                   providers |-> all.providers,
                   runtimes |-> all.runtimes,
                   files_scanned |-> all.files,
                   graph |-> build(all.modules, all.providers, all.runtimes),
                   analysis |-> analyze(cfg.analysis, all.modules, all.providers,
                                        module_order, provider_order)])

\* the references scan_paths hands to the analyser (<<>> lists on failure)
ParsedOf(cfg, paths) ==
    LET parsed == ParsePaths(cfg.continue_on_error, paths, 1,
                             ParsedHcl(<<>>, <<>>, <<>>, <<>>))
    IN IF parsed.ok THEN parsed.value ELSE ParsedHcl(<<>>, <<>>, <<>>, <<>>)

\* Scanner::scan_repository: the clone fails or the clone directory is scanned
scan_repository(cfg, repo, module_order, provider_order) ==
    IF repo.clone_error # <<>> THEN Err(repo.clone_error[1])
    ELSE scan_paths(cfg, <<repo.dir>>, module_order, provider_order)

\* VcsIdentifier::new
VcsIdentifier(platform, components) == <<"vcs", platform, components>>

\* DependencyGraph::module_ids and provider_ids
NodeIdsOfKind(g, kind) ==
    {g.nodes[i].id : i \in {k \in DOMAIN g.nodes : g.nodes[k].kind = kind}}

\* scan_vcs_organization: every module and provider node of a repository's
\* graph is marked with the repository's VCS identifier
MarkVcs(result, vcs_id) ==
    [result EXCEPT !.graph.vcs_metadata =
        [id \in NodeIdsOfKind(result.graph, "Module")
                    \cup NodeIdsOfKind(result.graph, "Provider") |-> vcs_id] @@ @]

\* scan_repositories: the results merged in the order of the urls
RECURSIVE MergeResults(_, _, _)
MergeResults(results, i, acc) ==
    IF i > Len(results) THEN acc
    ELSE MergeResults(results, i + 1, scan_result_merge(acc, results[i].value))

(***************************************************************************)
(* The analyser as a state machine: the extractor pushes module and        *)
(* provider references onto the lists, then analyze runs once over them.   *)
(***************************************************************************)
\* largest number of module references analysed together
MaxModules == 3
\* largest number of provider references analysed together
MaxProviders == 2

VpcSource ==
    RegistrySource("registry.terraform.io", "terraform-aws-modules", "vpc", "aws")

\* the constraint texts ">= 5.0", "<= 4.5" and "~> 3.0"
AtLeast5 == ConstraintParse(<<Written(">=", <<5, 0>>, "")>>)
AtMost45 == ConstraintParse(<<Written("<=", <<4, 5>>, "")>>)
About3 == ConstraintParse(<<Written("~>", <<3, 0>>, "")>>)

Repositories == {"a", "b"}

AnalyserModules ==
    {ModuleRef("vpc", VpcSource, vc, "main.tf", <<repo>>) :
        vc \in {<<>>, AtLeast5, AtMost45}, repo \in Repositories}
    \cup {ModuleRef("net", LocalSource(<<".", "modules", "vpc">>), vc, "main.tf", <<repo>>) :
        vc \in {<<>>, AtLeast5, AtMost45}, repo \in Repositories}

AnalyserProviders ==
    {ProviderRef("aws", <<<<"hashicorp", "aws">>>>, vc, "versions.tf", <<repo>>) :
        vc \in {<<>>, About3, AtLeast5}, repo \in Repositories}

\* AnalysisOptions: every check on (the default) or every check off
AnalyserConfigs ==
    {[check_exact |-> b, check_prerelease |-> b, check_upper_bound |-> b] :
        b \in BOOLEAN}

InitAnalyser ==
    /\ DiscoveryIdle
    /\ SourceIdle
    /\ CacheIdle
    /\ FanoutIdle
    /\ ConstraintIdle
    /\ GraphIdle
    /\ ScanIdle
    /\ all_modules = <<>>
    /\ all_providers = <<>>
    /\ config \in AnalyserConfigs
    /\ analysis = <<>>
    /\ rerun = <<>>

PushModule ==
    /\ analysis = <<>>
    /\ Len(all_modules) < MaxModules
    /\ \E module \in AnalyserModules : all_modules' = Append(all_modules, module)
    /\ UNCHANGED <<all_providers, config, analysis, rerun>>
    /\ UNCHANGED <<cvars, gvars, svars, kvars, fvars, dvars, pvars>>

PushProvider ==
    /\ analysis = <<>>
    /\ Len(all_providers) < MaxProviders
    /\ \E provider \in AnalyserProviders : all_providers' = Append(all_providers, provider)
    /\ UNCHANGED <<all_modules, config, analysis, rerun>>
    /\ UNCHANGED <<cvars, gvars, svars, kvars, fvars, dvars, pvars>>

Analyze ==
    /\ analysis = <<>>
    /\ \E module_order \in IterationOrders(ModuleKeys(all_modules)),
          provider_order \in IterationOrders(ProviderKeys(all_providers)) :
        analysis' = <<analyze(config, all_modules, all_providers,
                              module_order, provider_order)>>
    /\ UNCHANGED <<all_modules, all_providers, config, rerun>>
    /\ UNCHANGED <<cvars, gvars, svars, kvars, fvars, dvars, pvars>>

NextAnalyser == PushModule \/ PushProvider \/ Analyze

SpecAnalyser == InitAnalyser /\ [][NextAnalyser]_vars

(***************************************************************************)
(* Two runs of the analyser over the same lists.  Each run builds its own  *)
(* HashMaps in group_modules_by_source and group_providers_by_source, so   *)
(* each run has its own iteration orders.                                  *)
(***************************************************************************)
\* longest module list of the two-run specification
MaxStable == 4

\* two sources, two constraints that conflict with each other
StableModules ==
    {ModuleRef("vpc", VpcSource, vc, "main.tf", <<"a">>) : vc \in {AtLeast5, AtMost45}}
    \cup {ModuleRef("net", LocalSource(<<".", "modules", "vpc">>), vc, "main.tf", <<"a">>) :
            vc \in {AtLeast5, AtMost45}}

StableProviders ==
    {ProviderRef("aws", <<<<"hashicorp", "aws">>>>, vc, "versions.tf", <<"a">>) :
        vc \in {About3, AtLeast5}}

InitStable ==
    /\ DiscoveryIdle
    /\ SourceIdle
    /\ CacheIdle
    /\ FanoutIdle
    /\ ConstraintIdle
    /\ GraphIdle
    /\ ScanIdle
    /\ all_modules \in UNION {[1..n -> StableModules] : n \in 0..MaxStable}
    /\ all_providers \in UNION {[1..n -> StableProviders] : n \in {0, 2}}
    /\ config \in AnalyserConfigs
    /\ analysis = <<>>
    /\ rerun = <<>>

\* a second call of Analyzer::analyze with the same arguments
Reanalyze ==
    /\ analysis # <<>>
    /\ rerun = <<>>
    /\ \E module_order \in IterationOrders(ModuleKeys(all_modules)),
          provider_order \in IterationOrders(ProviderKeys(all_providers)) :
        rerun' = <<analyze(config, all_modules, all_providers,
                           module_order, provider_order)>>
    /\ UNCHANGED <<all_modules, all_providers, config, analysis>>
    /\ UNCHANGED <<cvars, gvars, svars, kvars, fvars, dvars, pvars>>

NextStable == Analyze \/ Reanalyze

SpecStable == InitStable /\ [][NextStable]_vars

(***************************************************************************)
(* The orchestrator as a state machine.  A batch names the entry point     *)
(* (scan_paths, scan_repositories or scan_vcs_organization), the           *)
(* repositories and the options.  scan_repositories runs the scans of its  *)
(* repositories concurrently and joins them; scan_vcs_organization scans   *)
(* them one after the other.                                               *)
(***************************************************************************)
\* largest number of repositories in a batch
MaxRepos == 2

\* a module block or a required_providers entry: its name, its source
\* attribute and the text of its version attribute (<<>> when absent)
Block(name, source, version) ==
    [name |-> name, source |-> source, version |-> version]

\* Constraint.raw: the text a constraint was parsed from, as an attribute
RawOf(constraint) == <<constraint[1].raw>>

\* a file: its path, the error of reading it or of hcl::from_str, its module
\* blocks, the entries of required_providers and the texts of the
\* required_version attributes of its terraform block
File(path, error, file_modules, file_providers, file_runtimes) ==
    [path |-> path, error |-> error, modules |-> file_modules,
     providers |-> file_providers, runtimes |-> file_runtimes]

Repo(name, clone_error, files) ==
    [name |-> name, clone_error |-> clone_error,
     dir |-> [exists |-> TRUE, name |-> name, files |-> files]]

\* repository a pins vpc to ">= 5.0", b and d to "<= 4.5"; d also holds a file
\* that is not HCL; c cannot be cloned; e holds a file that cannot be read;
\* the version of a module of f is not a constraint; a module of g has no
\* source; h requires a provider at version "*"
ScanRepos ==
    {Repo("a", <<>>,
          <<File(<<"a", "main.tf">>, <<>>,
                 <<Block("vpc", <<VpcSource>>, RawOf(AtLeast5))>>,
                 <<Block("aws", <<<<"hashicorp", "aws">>>>, RawOf(AtLeast5))>>,
                 RawOf(AtLeast5))>>),
     Repo("b", <<>>,
          <<File(<<"b", "main.tf">>, <<>>,
                 <<Block("vpc", <<VpcSource>>, RawOf(AtMost45))>>, <<>>, <<>>)>>),
     Repo("c", <<"GitClone">>, <<>>),
     Repo("d", <<>>,
          <<File(<<"d", "bad.tf">>, <<"HclParse">>, <<>>, <<>>, <<>>),
            File(<<"d", "main.tf">>, <<>>,
                 <<Block("vpc", <<VpcSource>>, RawOf(AtMost45))>>, <<>>, <<>>)>>),
     Repo("e", <<>>,
          <<File(<<"e", "locked.tf">>, <<"Io">>, <<>>, <<>>, <<>>)>>),
     Repo("f", <<>>,
          <<File(<<"f", "main.tf">>, <<>>,
                 <<Block("net", <<LocalSource(<<".", "modules", "vpc">>)>>, <<>>),
                   Block("vpc", <<VpcSource>>, <<<<WrittenWildcard>>>>)>>,
                 <<Block("aws", <<<<"hashicorp", "aws">>>>, RawOf(About3))>>,
                 <<>>)>>),
     Repo("g", <<>>,
          <<File(<<"g", "main.tf">>, <<>>,
                 <<Block("orphan", <<>>, <<>>)>>, <<>>, <<>>)>>),
     Repo("h", <<>>,
          <<File(<<"h", "versions.tf">>, <<>>, <<>>,
                 <<Block("random", <<<<"hashicorp", "random">>>>, <<<<WrittenWildcard>>>>)>>,
                 <<>>)>>)}

\* the batches: one to MaxRepos different repositories, in any order
Batches ==
    UNION {{repos \in [1..n -> ScanRepos] :
                \A i, j \in 1..n : repos[i] = repos[j] => i = j} : n \in 1..MaxRepos}

DefaultAnalysis ==
    [check_exact |-> TRUE, check_prerelease |-> TRUE, check_upper_bound |-> TRUE]

InitScan ==
    /\ DiscoveryIdle
    /\ SourceIdle
    /\ CacheIdle
    /\ FanoutIdle
    /\ ConstraintIdle
    /\ GraphIdle
    /\ AnalyserIdle
    /\ \E entry \in {"scan_paths", "scan_repositories", "scan_vcs_organization"},
          repos \in Batches, continue_on_error \in BOOLEAN :
        /\ batch = [entry |-> entry, repos |-> repos,
                    cfg |-> [continue_on_error |-> continue_on_error,
                             analysis |-> DefaultAnalysis]]
        /\ progress = [results |-> [i \in DOMAIN repos |-> <<>>], next |-> 1,
                       merged |-> ScanResultDefault, errors |-> <<>>]
    /\ outcome = <<>>

\* the directories of the repositories of the batch
BatchPaths == [i \in DOMAIN batch.repos |-> batch.repos[i].dir]

\* Scanner::scan_paths over the directories of the batch
ScanPaths ==
    /\ batch.entry = "scan_paths"
    /\ outcome = <<>>
    /\ LET parsed == ParsedOf(batch.cfg, BatchPaths)
       IN \E module_order \in IterationOrders(ModuleKeys(parsed.modules)),
             provider_order \in IterationOrders(ProviderKeys(parsed.providers)) :
            outcome' = <<scan_paths(batch.cfg, BatchPaths,
                                    module_order, provider_order)>>
    /\ UNCHANGED <<batch, progress>>
    /\ UNCHANGED <<cvars, gvars, avars, kvars, fvars, dvars, pvars>>

\* one future of scan_repositories: scan_repository(urls[i])
ScanRepository(i) ==
    /\ batch.entry = "scan_repositories"
    /\ outcome = <<>>
    /\ progress.results[i] = <<>>
    /\ LET parsed == ParsedOf(batch.cfg, <<batch.repos[i].dir>>)
       IN \E module_order \in IterationOrders(ModuleKeys(parsed.modules)),
             provider_order \in IterationOrders(ProviderKeys(parsed.providers)) :
            progress' = [progress EXCEPT !.results[i] =
                            <<scan_repository(batch.cfg, batch.repos[i],
                                              module_order, provider_order)>>]
    /\ UNCHANGED <<batch, outcome>>
    /\ UNCHANGED <<cvars, gvars, avars, kvars, fvars, dvars, pvars>>

\* try_join_all(futures).await?: the first error of a future ends the batch
JoinError ==
    /\ batch.entry = "scan_repositories"
    /\ outcome = <<>>
    /\ \E i \in DOMAIN progress.results :
        /\ progress.results[i] # <<>>
        /\ ~progress.results[i][1].ok
        /\ outcome' = <<progress.results[i][1]>>
    /\ UNCHANGED <<batch, progress>>
    /\ UNCHANGED <<cvars, gvars, avars, kvars, fvars, dvars, pvars>>

\* every future is Ok: the results are merged into ScanResult::default()
JoinMerge ==
    /\ batch.entry = "scan_repositories"
    /\ outcome = <<>>
    /\ \A i \in DOMAIN progress.results :
        progress.results[i] # <<>> /\ progress.results[i][1].ok
    /\ outcome' = <<Ok(MergeResults([i \in DOMAIN progress.results |->
                                        progress.results[i][1]],
                                    1, ScanResultDefault))>>
    /\ UNCHANGED <<batch, progress>>
    /\ UNCHANGED <<cvars, gvars, avars, kvars, fvars, dvars, pvars>>

\* one iteration of the loop of scan_vcs_organization
ScanNext ==
    /\ batch.entry = "scan_vcs_organization"
    /\ outcome = <<>>
    /\ progress.next <= Len(batch.repos)
    /\ LET repo == batch.repos[progress.next]
           parsed == ParsedOf(batch.cfg, <<repo.dir>>)
       IN \E module_order \in IterationOrders(ModuleKeys(parsed.modules)),
             provider_order \in IterationOrders(ProviderKeys(parsed.providers)) :
            LET result == scan_repository(batch.cfg, repo,
                                          module_order, provider_order)
            IN IF result.ok
               THEN /\ progress' =
                        [progress EXCEPT
                            !.merged = scan_result_merge(@,
                                MarkVcs(result.value,
                                        VcsIdentifier("github", <<repo.name>>))),
                            !.next = @ + 1]
                    /\ UNCHANGED outcome
               ELSE IF ~batch.cfg.continue_on_error
               THEN /\ outcome' = <<result>>
                    /\ UNCHANGED progress
               ELSE /\ progress' =
                        [progress EXCEPT
                            !.errors = Append(@, <<repo.name, result.error>>),
                            !.next = @ + 1]
                    /\ UNCHANGED outcome
    /\ UNCHANGED batch
    /\ UNCHANGED <<cvars, gvars, avars, kvars, fvars, dvars, pvars>>

\* the end of scan_vcs_organization: the errors are logged, Ok(merged)
ScanFinish ==
    /\ batch.entry = "scan_vcs_organization"
    /\ outcome = <<>>
    /\ progress.next > Len(batch.repos)
    /\ outcome' = <<Ok(progress.merged)>>
    /\ UNCHANGED <<batch, progress>>
    /\ UNCHANGED <<cvars, gvars, avars, kvars, fvars, dvars, pvars>>

NextScan ==
    \/ ScanPaths
    \/ \E i \in DOMAIN batch.repos : ScanRepository(i)
    \/ JoinError
    \/ JoinMerge
    \/ ScanNext
    \/ ScanFinish

SpecScan == InitScan /\ [][NextScan]_vars

(***************************************************************************)
(* Bounded inputs of the constraint engine                                 *)
(***************************************************************************)
\* versions a constraint can be written with: a release or an -alpha
WrittenVersions ==
    [major : 0..MaxComp, minor : 0..MaxComp, patch : 0..MaxComp,
     pre : {"alpha", ""}]

CompareOps == {"Exact", "GreaterThan", "GreaterThanOrEqual", "LessThan",
               "LessThanOrEqual", "NotEqual"}

\* what parse_single_constraint yields: parts is the number of written
\* components of a ~> atom (missing components are padded with zeros)
Atoms ==
    [op : CompareOps, version : WrittenVersions, parts : {3}]
    \cup [op : {"Pessimistic"}, version : WrittenVersions, parts : {3}]
    \cup {[op |-> "Pessimistic", version |-> VersionNew(x, y, 0), parts |-> 2] :
            x \in 0..MaxComp, y \in 0..MaxComp}
    \cup {[op |-> "Pessimistic", version |-> VersionNew(x, 0, 0), parts |-> 1] :
            x \in 0..MaxComp}

ConstraintsUpTo(n) == UNION {[1..k -> Atoms] : k \in 0..n}

\* every version that can decide satisfaction of the bounded constraints:
\* one component above the written ones, the top component, and a tag on
\* either side of the written -alpha
Versions ==
    [major : 0..(MaxComp + 1) \cup {U64Max}, minor : 0..(MaxComp + 1) \cup {U64Max},
     patch : 0..(MaxComp + 1) \cup {U64Max}, pre : {"0", "alpha", "beta", ""}]

(***************************************************************************)
(* The constraint engine as a state machine: two constraints are parsed,   *)
(* then has_overlap_with and conflicts_with are asked of them; an answer is   *)
(* <<>> until asked and <<b>> afterwards.                                  *)
(***************************************************************************)
InitConstraint ==
    /\ DiscoveryIdle
    /\ SourceIdle
    /\ CacheIdle
    /\ FanoutIdle
    /\ GraphIdle
    /\ AnalyserIdle
    /\ ScanIdle
    /\ lhs \in ConstraintsUpTo(MaxAtoms)
    /\ rhs \in ConstraintsUpTo(MaxAtoms)
    /\ overlap = <<>>
    /\ conflict = <<>>

HasOverlapWith ==
    /\ overlap = <<>>
    /\ overlap' = <<has_overlap_with(lhs, rhs)>>
    /\ UNCHANGED <<lhs, rhs, conflict>>
    /\ UNCHANGED <<gvars, avars, svars, kvars, fvars, dvars, pvars>>

ConflictsWith ==
    /\ conflict = <<>>
    /\ conflict' = <<conflicts_with(lhs, rhs)>>
    /\ UNCHANGED <<lhs, rhs, overlap>>
    /\ UNCHANGED <<gvars, avars, svars, kvars, fvars, dvars, pvars>>

NextConstraint == HasOverlapWith \/ ConflictsWith

SpecConstraint == InitConstraint /\ [][NextConstraint]_vars

(***************************************************************************)
(* The same two questions asked of a constraint of two bound atoms (a      *)
(* range such as ">= 1.0.0, < 0.1.0") and a constraint of at most one.     *)
(***************************************************************************)
\* number of atoms of the left constraint
RangeAtoms == 2

ReleaseVersions == {v \in WrittenVersions : v.pre = ""}

BoundAtoms ==
    [op : {"GreaterThan", "GreaterThanOrEqual", "LessThan", "LessThanOrEqual"},
     version : ReleaseVersions, parts : {3}]

ExactAtoms == [op : {"Exact"}, version : ReleaseVersions, parts : {3}]

InitRange ==
    /\ DiscoveryIdle
    /\ SourceIdle
    /\ CacheIdle
    /\ FanoutIdle
    /\ GraphIdle
    /\ AnalyserIdle
    /\ ScanIdle
    /\ lhs \in [1..RangeAtoms -> BoundAtoms]
    /\ rhs \in UNION {[1..k -> BoundAtoms \cup ExactAtoms] : k \in 0..1}
    /\ overlap = <<>>
    /\ conflict = <<>>

SpecRange == InitRange /\ [][NextConstraint]_vars

(***************************************************************************)
(* The clone cache (src/src/git/cache.rs, src/src/git/client.rs).  The     *)
(* cache directory holds one directory per cache key: a working tree       *)
(* (given by its HEAD SHA) and the metadata file .monphare-cache.  Time is *)
(* the system clock in seconds; it never runs backwards.  The branch       *)
(* option is not set.  A call is one step; what git and the file system    *)
(* answer (fetch, clone, remove_dir_all, write) is chosen freely.          *)
(***************************************************************************)
\* latest clock value
MaxClock == 3
\* number of distinct HEAD commits of a remote
MaxSha == 2
\* CacheManager.fresh_threshold_seconds
fresh_threshold_seconds == 2

\* a repository URL: the org/repo path it names and the two 32-bit halves of
\* its DefaultHasher value
Url(path, hash_high, hash_low) ==
    [path |-> path, hash |-> [high |-> hash_high, low |-> hash_low]]

Urls == {Url(<<"org", "a">>, 7, 1), Url(<<"org", "b">>, 7, 2)}

\* extract_repo_name: the path with "/" replaced by "-"
extract_repo_name(url) == url.path

\* CacheManager::cache_key: the readable name and the low 32 bits of the hash
cache_key(url) == <<extract_repo_name(url), url.hash.low>>

\* CacheManager::get_cache_path: cache_dir joined with the key
get_cache_path(url) == <<"cache_dir", cache_key(url)>>

CacheKeys == {cache_key(url) : url \in Urls}

\* CacheEntry
CacheEntry(url, head_sha, branch, last_updated, last_accessed) ==
    [url |-> url, head_sha |-> head_sha, branch |-> branch,
     last_updated |-> last_updated, last_accessed |-> last_accessed]

\* an entry directory that does not exist
NoEntry == [tree |-> <<>>, meta |-> <<>>]

\* CacheManager::get_cached: None unless the directory and the metadata exist
get_cached(d, url) ==
    IF d[cache_key(url)].tree = <<>> \/ d[cache_key(url)].meta = <<>> THEN <<>>
    ELSE d[cache_key(url)].meta

\* u64::saturating_sub
saturating_sub(a, b) == IF a >= b THEN a - b ELSE 0

\* what tokio::fs::write does to the metadata file: the content is written;
\* or File::create fails and the file stays as it was; or write_all fails
\* after File::create truncated the file, which is left empty or cut short
WriteOutcomes == {"Written", "Refused", "Torn"}

\* a metadata file left empty or cut short: serde_json::from_str fails on
\* it, so get_cached, touch_cache_entry, refresh_cache_entry and
\* cleanup_old_entries read no metadata from it
write_torn(d, url) == [d EXCEPT ![cache_key(url)].meta = <<>>]

\* CacheManager::refresh_cache_entry: last_accessed and last_updated become now
refresh_cache_entry(d, url, now, written) ==
    IF d[cache_key(url)].meta = <<>> \/ written = "Refused" THEN d
    ELSE IF written = "Torn" THEN write_torn(d, url)
    ELSE [d EXCEPT ![cache_key(url)].meta[1].last_accessed = now,
                   ![cache_key(url)].meta[1].last_updated = now]

\* a touch that also moves last_updated, as a refresh does
touch_moving_last_updated(d, url, now, written) ==
    refresh_cache_entry(d, url, now, written)

\* CacheManager::touch_cache_entry: last_accessed becomes now when the
\* metadata can be read and written
touch_cache_entry(d, url, now, written) ==
    IF d[cache_key(url)].meta = <<>> \/ written = "Refused" THEN d
    ELSE IF written = "Torn" THEN write_torn(d, url)
    ELSE [d EXCEPT ![cache_key(url)].meta[1].last_accessed = now]

\* CacheManager::update_cache_entry, when the write succeeds
update_cache_entry(d, url, head_sha, branch, now) ==
    [d EXCEPT ![cache_key(url)].meta = <<CacheEntry(url, head_sha, branch, now, now)>>]

\* git rev-parse HEAD~1: the commit before HEAD (HEAD itself for the first)
head_sha_of_parent(d, url) ==
    IF d[cache_key(url)].tree[1] > 1 THEN d[cache_key(url)].tree[1] - 1
    ELSE d[cache_key(url)].tree[1]

\* CacheManager::get_head_sha, when it succeeds: git rev-parse HEAD
get_head_sha(d, url) == d[cache_key(url)].tree[1]

\* CacheManager::fetch_updates, when it succeeds: the tree is reset to the
\* remote HEAD
fetch_updates(d, url, remote_sha) ==
    [d EXCEPT ![cache_key(url)].tree = <<remote_sha>>]

\* what a call of clone_with_cache leaves behind and what it did
Ensured(d, result, route, fetched, removed, cloned) ==
    [disk |-> d, result |-> result, route |-> route, fetched |-> fetched,
     removed |-> removed, cloned |-> cloned]

\* GitClient::clone_with_cache, from "perform fresh clone" on
fresh_clone(d, url, now, remote_sha, env, fetched) ==
    LET key == cache_key(url)
        exists == d[key].tree # <<>>
        emptied == [d EXCEPT ![key] = NoEntry]
        cloned == [d EXCEPT ![key] = [tree |-> <<remote_sha>>, meta |-> <<>>]]
    IN IF exists /\ ~env.remove
       THEN Ensured(d, Err("Io"), "Miss", fetched, FALSE, FALSE)
       ELSE IF ~env.clone
       THEN Ensured(emptied, Err("GitClone"), "Miss", fetched, exists, FALSE)
       ELSE IF env.write # "Written"
       THEN Ensured(cloned, Err("Io"), "Miss", fetched, exists, TRUE)
       ELSE Ensured(update_cache_entry(cloned, url, get_head_sha(cloned, url),
                                       <<>>, now),
                    Ok(get_cache_path(url)), "Miss", fetched, exists, TRUE)

\* GitClient::clone_with_cache
clone_with_cache(d, url, now, remote_sha, env) ==
    LET cached == get_cached(d, url)
        fetched == fetch_updates(d, url, remote_sha)
    IN IF cached = <<>> THEN fresh_clone(d, url, now, remote_sha, env, FALSE)
       ELSE IF saturating_sub(now, cached[1].last_updated) < fresh_threshold_seconds
       THEN Ensured(touch_cache_entry(d, url, now, env.write),
                    Ok(get_cache_path(url)), "Hit", FALSE, FALSE, FALSE)
       ELSE IF ~env.fetch
       THEN fresh_clone(d, url, now, remote_sha, env, TRUE)
       ELSE IF get_head_sha(fetched, url) = cached[1].head_sha
       THEN Ensured(refresh_cache_entry(fetched, url, now, env.write),
                    Ok(get_cache_path(url)), "Unchanged", TRUE, FALSE, FALSE)
       ELSE IF env.write = "Refused"
       THEN Ensured(fetched, Err("Io"), "Updated", TRUE, FALSE, FALSE)
       ELSE IF env.write = "Torn"
       THEN Ensured(write_torn(fetched, url), Err("Io"), "Updated", TRUE, FALSE, FALSE)
       ELSE Ensured(update_cache_entry(fetched, url, get_head_sha(fetched, url),
                                       <<>>, now),
                    Ok(get_cache_path(url)), "Updated", TRUE, FALSE, FALSE)

\* the entries cleanup_old_entries collects: directories with metadata
CollectedEntries(d) == {key \in DOMAIN d : d[key].tree # <<>> /\ d[key].meta # <<>>}

\* the collected entries in any order
ReadDirOrder(d) ==
    LET keys == CollectedEntries(d)
    IN {o \in [1..Cardinality(keys) -> keys] :
            \A i, j \in DOMAIN o : o[i] = o[j] => i = j}

\* the orders sort_by_key can leave the collected entries in: last_accessed
\* ascending, entries of equal last_accessed in the order read_dir gave
SortedEntries(d) ==
    LET keys == CollectedEntries(d)
    IN {o \in [1..Cardinality(keys) -> keys] :
            /\ \A i, j \in DOMAIN o : o[i] = o[j] => i = j
            /\ \A i, j \in DOMAIN o :
                i < j => d[o[i]].meta[1].last_accessed <= d[o[j]].meta[1].last_accessed}

\* CacheManager::cleanup_old_entries: the oldest entries over the limit are
\* removed, those whose remove_dir_all fails stay; returns the number removed
cleanup_old_entries(d, max_entries, sorted, failing) ==
    LET over == IF Len(sorted) > max_entries THEN Len(sorted) - max_entries ELSE 0
        evicted == {sorted[i] : i \in 1..over} \ failing
    IN [disk |-> [key \in DOMAIN d |-> IF key \in evicted THEN NoEntry ELSE d[key]],
        result |-> Ok(Cardinality(evicted))]

(***************************************************************************)
(* The cache as a state machine: time passes, remotes receive commits,     *)
(* clone_with_cache and cleanup_old_entries are called one at a time.      *)
(***************************************************************************)
InitCache ==
    /\ DiscoveryIdle
    /\ SourceIdle
    /\ ConstraintIdle
    /\ GraphIdle
    /\ AnalyserIdle
    /\ ScanIdle
    /\ FanoutIdle
    /\ clock = 0
    /\ remote = [url \in Urls |-> 1]
    /\ disk = [key \in CacheKeys |-> NoEntry]
    /\ done = <<>>

\* SystemTime::now() advances
Tick ==
    /\ clock < MaxClock
    /\ clock' = clock + 1
    /\ done' = <<>>
    /\ UNCHANGED <<remote, disk>>
    /\ UNCHANGED <<cvars, gvars, avars, svars, fvars, dvars, pvars>>

\* a commit is pushed to a remote
Push(url) ==
    /\ remote[url] < MaxSha
    /\ remote' = [remote EXCEPT ![url] = @ + 1]
    /\ done' = <<>>
    /\ UNCHANGED <<clock, disk>>
    /\ UNCHANGED <<cvars, gvars, avars, svars, fvars, dvars, pvars>>

\* GitClient::clone_with_cache(url)
Ensure(url) ==
    /\ \E env \in [fetch : BOOLEAN, clone : BOOLEAN, remove : BOOLEAN, write : WriteOutcomes] :
        LET call == clone_with_cache(disk, url, clock, remote[url], env)
        IN /\ disk' = call.disk
           /\ done' = <<[op |-> "ensure", url |-> url, before |-> disk,
                         now |-> clock, remote_sha |-> remote[url],
                         fetch_failed |-> ~env.fetch,
                         result |-> call.result, route |-> call.route,
                         fetched |-> call.fetched, removed |-> call.removed,
                         cloned |-> call.cloned]>>
    /\ UNCHANGED <<clock, remote>>
    /\ UNCHANGED <<cvars, gvars, avars, svars, fvars, dvars, pvars>>

\* CacheManager::cleanup_old_entries(max_entries)
Cleanup(max_entries) ==
    /\ \E sorted \in SortedEntries(disk), failing \in SUBSET CollectedEntries(disk) :
        LET call == cleanup_old_entries(disk, max_entries, sorted, failing)
        IN /\ disk' = call.disk
           /\ done' = <<[op |-> "cleanup", max_entries |-> max_entries,
                         before |-> disk, failing |-> failing,
                         result |-> call.result]>>
    /\ UNCHANGED <<clock, remote>>
    /\ UNCHANGED <<cvars, gvars, avars, svars, fvars, dvars, pvars>>

NextCache ==
    \/ Tick
    \/ \E url \in Urls : Push(url)
    \/ \E url \in Urls : Ensure(url)
    \/ \E max_entries \in 0..Cardinality(CacheKeys) : Cleanup(max_entries)

SpecCache == InitCache /\ [][NextCache]_vars

(***************************************************************************)
(* The fan-out of Scanner::scan_repositories: one scan_repository future   *)
(* per url, all handed to try_join_all.  A future is created, then clones  *)
(* (clone_repository, which goes through clone_with_cache), then scans the *)
(* clone (scan_path), and ends done or failed.  The first poll of          *)
(* try_join_all polls every future, so all of them start together; the     *)
(* first failure ends the join and drops the futures still pending.        *)
(***************************************************************************)
\* most urls in a batch
MaxBatch == 6

\* RateLimitConfig::default().max_concurrent, the one concurrency limit the
\* program configures
max_concurrent == 5

\* the url lists handed to scan_repositories; a url may occur twice
UrlBatches == UNION {[1..n -> Urls] : n \in 1..MaxBatch}

Future(url, phase) == [url |-> url, phase |-> phase]

InitFanout ==
    /\ DiscoveryIdle
    /\ SourceIdle
    /\ ConstraintIdle
    /\ GraphIdle
    /\ AnalyserIdle
    /\ ScanIdle
    /\ CacheIdle
    /\ \E urls \in UrlBatches :
        tasks = [futures |-> [i \in DOMAIN urls |-> Future(urls[i], "created")],
                 joined |-> <<>>]

\* the futures that have started and not yet ended
InFlight == {i \in DOMAIN tasks.futures : tasks.futures[i].phase \in {"cloning", "scanning"}}

\* try_join_all(futures).await, first poll: every future starts its clone
Start ==
    /\ \A i \in DOMAIN tasks.futures : tasks.futures[i].phase = "created"
    /\ tasks' = [tasks EXCEPT !.futures =
                    [i \in DOMAIN tasks.futures |-> Future(tasks.futures[i].url, "cloning")]]
    /\ UNCHANGED <<cvars, gvars, avars, svars, kvars, dvars, pvars>>

\* the join returns the first Err; the futures still pending are dropped
FailAt(i, error) ==
    [futures |-> [k \in DOMAIN tasks.futures |->
                    IF k = i THEN Future(tasks.futures[k].url, "failed")
                    ELSE IF k \in InFlight THEN Future(tasks.futures[k].url, "dropped")
                    ELSE tasks.futures[k]],
     joined |-> <<Err(error)>>]

\* scan_repository: clone_repository(url) returns a path
CloneOk(i) ==
    /\ tasks.futures[i].phase = "cloning"
    /\ tasks' = [tasks EXCEPT !.futures[i].phase = "scanning"]
    /\ UNCHANGED <<cvars, gvars, avars, svars, kvars, dvars, pvars>>

\* scan_repository: clone_repository(url) returns Err
CloneErr(i) ==
    /\ tasks.futures[i].phase = "cloning"
    /\ tasks' = FailAt(i, "GitClone")
    /\ UNCHANGED <<cvars, gvars, avars, svars, kvars, dvars, pvars>>

\* scan_repository: scan_path returns a ScanResult
ScanOk(i) ==
    /\ tasks.futures[i].phase = "scanning"
    /\ tasks' = [tasks EXCEPT !.futures[i].phase = "done"]
    /\ UNCHANGED <<cvars, gvars, avars, svars, kvars, dvars, pvars>>

\* scan_repository: scan_path returns Err
ScanErr(i) ==
    /\ tasks.futures[i].phase = "scanning"
    /\ \E error \in {"HclParse", "Io"} : tasks' = FailAt(i, error)
    /\ UNCHANGED <<cvars, gvars, avars, svars, kvars, dvars, pvars>>

\* try_join_all returns the results, which are merged
JoinOk ==
    /\ tasks.joined = <<>>
    /\ \A i \in DOMAIN tasks.futures : tasks.futures[i].phase = "done"
    /\ tasks' = [tasks EXCEPT !.joined = <<Ok("merged")>>]
    /\ UNCHANGED <<cvars, gvars, avars, svars, kvars, dvars, pvars>>

NextFanout ==
    \/ Start
    \/ \E i \in DOMAIN tasks.futures : CloneOk(i)
    \/ \E i \in DOMAIN tasks.futures : CloneErr(i)
    \/ \E i \in DOMAIN tasks.futures : ScanOk(i)
    \/ \E i \in DOMAIN tasks.futures : ScanErr(i)
    \/ JoinOk

SpecFanout == InitFanout /\ [][NextFanout]_vars

(***************************************************************************)
(* Repository discovery (src/src/vcs_clients.rs): RateLimitedClient::get,  *)
(* the page loop of the platform clients and the RepoCache file.           *)
(***************************************************************************)
\* most pages a server hands out
MaxPages == 2

\* latest time of a discovery call
MaxNow == 3

\* RateLimitConfig::default()
delay_ms == 1000
max_retries == 3
backoff_multiplier == 2

\* the page size the GitHub and GitLab clients ask for
per_page == 100

\* RepoCache.ttl, in time units of the model
ttl == 2

\* the statuses a server answers with
Statuses == {200, 404, 429, 503}

\* StatusCode::is_success and is_server_error
is_success(status) == status \in 200..299
is_server_error(status) == status \in 500..599

\* one token of the pretty-printed JSON of CachedRepositories
Chunk(token, value) == [token |-> token, value |-> value]

\* serde_json::to_string_pretty(&CachedRepositories { cached_at, repos })
to_string_pretty(cached_at, repos) ==
    <<Chunk("{", 0), Chunk("cached_at", cached_at), Chunk("repos", repos), Chunk("}", 0)>>

\* serde_json::from_str::<CachedRepositories>: <<>> when the text is not a
\* complete document
from_str(content) ==
    IF /\ Len(content) = 4
       /\ content[1].token = "{" /\ content[2].token = "cached_at"
       /\ content[3].token = "repos" /\ content[4].token = "}"
    THEN <<[cached_at |-> content[2].value, repos |-> content[3].value]>>
    ELSE <<>>

\* RepoCache::load, given whether remove_file succeeds: the Result and the
\* file it leaves
load(enabled, file, now, removed) ==
    IF ~enabled \/ file = <<>> THEN [result |-> Ok(<<>>), file |-> file]
    ELSE IF from_str(file[1]) = <<>> THEN [result |-> Err("Json"), file |-> file]
    ELSE LET cached == from_str(file[1])[1]
             elapsed == IF cached.cached_at > now THEN ttl ELSE now - cached.cached_at
         IN IF elapsed < ttl THEN [result |-> Ok(<<cached.repos>>), file |-> file]
            ELSE [result |-> Ok(<<>>), file |-> IF removed THEN <<>> ELSE file]

\* a call that has not returned
Call(entry, enabled, now, phase) ==
    [entry |-> entry, enabled |-> enabled, now |-> now, phase |-> phase,
     attempts |-> 0, delay |-> delay_ms, slept |-> <<>>, page |-> 1, repos |-> 0,
     sent |-> <<>>, content |-> <<>>, result |-> <<>>]

\* the files a call can find at the cache path: none, a complete one or a
\* truncated one
CacheFiles ==
    {<<>>} \cup {<<to_string_pretty(at, 1)>> : at \in 0..1}
           \cup {<<SubSeq(to_string_pretty(0, 1), 1, 2)>>}

InitDiscovery ==
    /\ ConstraintIdle
    /\ GraphIdle
    /\ AnalyserIdle
    /\ ScanIdle
    /\ CacheIdle
    /\ FanoutIdle
    /\ SourceIdle
    /\ cache_file \in CacheFiles
    /\ \E entry \in {"get", "github", "gitlab"}, enabled \in BOOLEAN, now \in 1..MaxNow :
        discovery = Call(entry, enabled, now, IF entry = "get" THEN "request" ELSE "load")

Returned(call, result) == [call EXCEPT !.phase = "returned", !.result = <<result>>]

\* RateLimitedClient::request, one turn of its loop: the request is sent; a
\* success returns; a 5xx or 429 sleeps and goes round again while
\* attempts <= max_retries; anything else is a VcsApi error
Request ==
    /\ discovery.phase = "request"
    /\ \E sent_ok \in BOOLEAN, status \in Statuses :
        LET attempts == discovery.attempts + 1
            sent == IF sent_ok THEN Append(discovery.sent, [page |-> 1, status |-> status])
                    ELSE discovery.sent
            call == [discovery EXCEPT !.attempts = attempts, !.sent = sent]
        IN discovery' =
            IF ~sent_ok THEN Returned(call, Err("VcsApi"))
            ELSE IF is_success(status) THEN Returned(call, Ok(status))
            ELSE IF (is_server_error(status) \/ status = 429) /\ attempts <= max_retries
            THEN [call EXCEPT !.slept = Append(@, discovery.delay),
                              !.delay = @ * backoff_multiplier]
            ELSE Returned(call, Err("VcsApi"))
    /\ UNCHANGED cache_file
    /\ UNCHANGED <<cvars, gvars, avars, svars, kvars, fvars, pvars>>

\* discover_repositories, the cache check: a hit returns the cached list, a
\* file that cannot be parsed is an error, otherwise the pages are fetched
Load ==
    /\ discovery.phase = "load"
    /\ \E removed \in BOOLEAN :
        LET loaded == load(discovery.enabled, cache_file, discovery.now, removed)
        IN /\ cache_file' = loaded.file
           /\ discovery' =
                IF ~loaded.result.ok THEN Returned(discovery, loaded.result)
                ELSE IF loaded.result.value # <<>>
                THEN Returned(discovery, Ok(loaded.result.value[1]))
                ELSE [discovery EXCEPT !.phase = "pages"]
    /\ UNCHANGED <<cvars, gvars, avars, svars, kvars, fvars, pvars>>

\* where the page loop goes once it is left
AfterPages(call) ==
    IF call.enabled THEN [call EXCEPT !.phase = "save"]
    ELSE Returned(call, Ok(call.repos))

\* discover_repositories, one turn of the page loop: the request goes
\* through the bare reqwest client; a status that is not a success is a
\* VcsApi error; an empty page or a short page ends the loop
SendPage ==
    /\ discovery.phase = "pages"
    /\ \E sent_ok \in BOOLEAN, status \in Statuses,
          page_len \in (IF discovery.page < MaxPages THEN {0, 1, per_page} ELSE {0, 1}) :
        LET sent == IF sent_ok
                    THEN Append(discovery.sent, [page |-> discovery.page, status |-> status])
                    ELSE discovery.sent
            call == [discovery EXCEPT !.attempts = @ + 1, !.sent = sent]
        IN discovery' =
            IF ~sent_ok THEN Returned(call, Err("VcsApi"))
            ELSE IF ~is_success(status) THEN Returned(call, Err("VcsApi"))
            ELSE IF page_len = 0 THEN AfterPages(call)
            ELSE IF page_len < per_page
            THEN AfterPages([call EXCEPT !.repos = @ + page_len, !.page = @ + 1])
            ELSE [call EXCEPT !.repos = @ + page_len, !.page = @ + 1,
                              !.slept = Append(@, delay_ms)]
    /\ UNCHANGED cache_file
    /\ UNCHANGED <<cvars, gvars, avars, svars, kvars, fvars, pvars>>

\* RepoCache::save up to File::create inside std::fs::write: create_dir_all
\* or the create fails (the caller warns and returns the list), or the file
\* at the cache path is created or truncated
SaveCreate ==
    /\ discovery.phase = "save"
    /\ \E created \in BOOLEAN :
        IF created
        THEN /\ cache_file' = <<<<>>>>
             /\ discovery' = [discovery EXCEPT
                    !.phase = "writing",
                    !.content = to_string_pretty(discovery.now, discovery.repos)]
        ELSE /\ cache_file' = cache_file
             /\ discovery' = Returned(discovery, Ok(discovery.repos))
    /\ UNCHANGED <<cvars, gvars, avars, svars, kvars, fvars, pvars>>

\* std::fs::write, write_all: the next part of the content reaches the
\* file, or the write fails (the caller warns and returns the list); after
\* the last part save returns
SaveWrite ==
    /\ discovery.phase = "writing"
    /\ \E written \in BOOLEAN :
        LET next == Len(cache_file[1]) + 1
        IN IF ~written
           THEN /\ cache_file' = cache_file
                /\ discovery' = Returned(discovery, Ok(discovery.repos))
           ELSE /\ cache_file' = <<Append(cache_file[1], discovery.content[next])>>
                /\ discovery' = IF next = Len(discovery.content)
                                THEN Returned(discovery, Ok(discovery.repos))
                                ELSE discovery
    /\ UNCHANGED <<cvars, gvars, avars, svars, kvars, fvars, pvars>>

\* the process dies while save is running
Crash ==
    /\ discovery.phase \in {"save", "writing"}
    /\ discovery' = [discovery EXCEPT !.phase = "crashed"]
    /\ UNCHANGED cache_file
    /\ UNCHANGED <<cvars, gvars, avars, svars, kvars, fvars, pvars>>

NextDiscovery ==
    \/ Request
    \/ Load
    \/ SendPage
    \/ SaveCreate
    \/ SaveWrite
    \/ Crash

SpecDiscovery == InitDiscovery /\ [][NextDiscovery]_vars

(***************************************************************************)
(* Module source parsing (src/src/parser/source.rs).  A source text is the *)
(* record of the parts its characters spell; a formatted string is the     *)
(* tuple of the parts it is put together from.                             *)
(***************************************************************************)
\* the text of a Git source attribute: "git::https://host/owner/repo.git",
\* "git@host:owner/repo.git" or "github.com/owner/repo.git", each with an
\* optional "?ref=R" and an optional "//subdir"
SourceText(form, host, owner, repo, ref_, subdir) ==
    [form |-> form, host |-> host, owner |-> owner, repo |-> repo,
     ref_ |-> ref_, subdir |-> subdir]

SourceTexts ==
    {SourceText(form, host, owner, repo, ref_, subdir) :
        form \in {"git::", "git@"}, host \in {"github.com", "gitlab.com"},
        owner \in {"o", "p"}, repo \in {"r", "s"},
        ref_ \in {<<>>, <<"v1">>}, subdir \in {<<>>, <<"sub">>}}
    \cup {SourceText("github", "github.com", owner, repo, ref_, subdir) :
        owner \in {"o", "p"}, repo \in {"r", "s"},
        ref_ \in {<<>>, <<"v1">>}, subdir \in {<<>>, <<"sub">>}}

\* try_parse_git_source: GIT_URL_PATTERN captures the url up to ".git";
\* GIT_SSH_PATTERN captures the host before the colon and the path without
\* ".git"; GITHUB_PATTERN captures the owner and the repository, whose
\* greedy group takes the ".git" with it
try_parse_git_source(text) ==
    CASE text.form = "git::" ->
            LET url == <<"https://", text.host, text.owner, text.repo, ".git">>
            IN GitSource(<<"git::">> \o url, url, text.ref_, text.subdir)
      [] text.form = "git@" ->
            GitSource(<<text.host>>,
                      <<"ssh://git@", text.host, text.owner, text.repo>>,
                      text.ref_, text.subdir)
      [] text.form = "github" ->
            GitSource(<<"github.com", text.owner, text.repo, ".git", ".git">>,
                      <<"https://", "github.com", text.owner, text.repo, ".git", ".git">>,
                      text.ref_, text.subdir)

InitSource ==
    /\ ConstraintIdle
    /\ GraphIdle
    /\ AnalyserIdle
    /\ ScanIdle
    /\ CacheIdle
    /\ FanoutIdle
    /\ DiscoveryIdle
    /\ source_text \in SourceTexts
    /\ source_parsed = <<>>

\* parse_module_source on the text of a source attribute
ParseSource ==
    /\ source_parsed = <<>>
    /\ source_parsed' = <<[source |-> try_parse_git_source(source_text), id |-> <<>>]>>
    /\ UNCHANGED source_text
    /\ UNCHANGED <<cvars, gvars, avars, svars, kvars, fvars, dvars>>

\* the analyser asks for the canonical id of the parsed source
CanonicalId ==
    /\ source_parsed # <<>>
    /\ source_parsed[1].id = <<>>
    /\ source_parsed' = <<[source_parsed[1] EXCEPT
                            !.id = <<canonical_id(source_parsed[1].source)>>]>>
    /\ UNCHANGED source_text
    /\ UNCHANGED <<cvars, gvars, avars, svars, kvars, fvars, dvars>>

NextSource ==
    \/ ParseSource
    \/ CanonicalId

SpecSource == InitSource /\ [][NextSource]_vars

(***************************************************************************)
(* The graph builder on its own: GraphBuilder::build over the reference    *)
(* lists of one scan, which may span repositories.                         *)
(***************************************************************************)
\* most module references and most provider references handed to build
MaxBuildModules == 3
MaxBuildProviders == 2

\* module "vpc" and module "net", both with source "./modules/vpc", and the
\* registry module vpc declared in repository a and in repository b
BuildModules ==
    {ModuleRef(name, LocalSource(<<".", "modules", "vpc">>), <<>>, "main.tf", <<"a">>) :
        name \in {"vpc", "net"}}
    \cup {ModuleRef("vpc", VpcSource, <<>>, "main.tf", <<repo>>) : repo \in {"a", "b"}}

\* the provider hashicorp/aws as repository a and repository b declare it
BuildProviders ==
    {ProviderRef("aws", <<<<"hashicorp", "aws">>>>, <<>>, "versions.tf", <<repo>>) :
        repo \in {"a", "b"}}

InitBuild ==
    /\ ConstraintIdle
    /\ ScanIdle
    /\ CacheIdle
    /\ FanoutIdle
    /\ DiscoveryIdle
    /\ SourceIdle
    /\ all_modules \in UNION {[1..n -> BuildModules] : n \in 0..MaxBuildModules}
    /\ all_providers \in UNION {[1..n -> BuildProviders] : n \in 0..MaxBuildProviders}
    /\ config = <<>>
    /\ analysis = <<>>
    /\ rerun = <<>>
    /\ graphs = <<>>
    /\ merged = <<>>
    /\ last_edge = <<>>

\* GraphBuilder::new().build(&all_modules, &all_providers, &[])
Build ==
    /\ graphs = <<>>
    /\ graphs' = <<build(all_modules, all_providers, <<>>)>>
    /\ UNCHANGED <<merged, last_edge>>
    /\ UNCHANGED <<cvars, avars, svars, kvars, fvars, dvars, pvars>>

NextBuild == Build

SpecBuild == InitBuild /\ [][NextBuild]_vars

\* the versions satisfying every atom of both constraints
CommonVersions(a, b) ==
    {v \in Versions : is_satisfied_by(a, v) /\ is_satisfied_by(b, v)}

NoNotEqual(c) == \A i \in DOMAIN c : c[i].op # "NotEqual"

\* C2: if some version satisfies every atom of lhs and of rhs, then overlap is
\* true and conflicts is false
C2_SharedVersionNeverConflicts ==
    (overlap # <<>> /\ conflict # <<>> /\ CommonVersions(lhs, rhs) # {})
        => (overlap = <<TRUE>> /\ conflict = <<FALSE>>)

\* C3: for constraints without NotEqual atoms, overlap is true only if some
\* version satisfies every atom of both
C3_OverlapHasCommonVersion ==
    (overlap = <<TRUE>> /\ NoNotEqual(lhs) /\ NoNotEqual(rhs))
        => CommonVersions(lhs, rhs) # {}

\* the fold of effective_bounds ends with min > max
Inverted(c) ==
    LET mm == FoldBounds(c, 1, <<VersionNew(0, 0, 0),
                                 VersionNew(U64Max, U64Max, U64Max)>>)
    IN VLt(mm[2], mm[1])

\* C14: a constraint whose folded interval is inverted (min > max) is empty:
\* its overlap with any other constraint is false, so it conflicts with
\* every constraint.
C14_InvertedIntervalIsEmpty ==
    Inverted(lhs) =>
        /\ overlap # <<>> => overlap = <<FALSE>>
        /\ conflict # <<>> => conflict = <<TRUE>>

\* lhs is the single atom op1 w and rhs the single atom op2 w, for one w
Touching(op1, op2) ==
    /\ Len(lhs) = 1 /\ Len(rhs) = 1
    /\ lhs[1].op = op1 /\ rhs[1].op = op2
    /\ lhs[1].version = rhs[1].version

\* C15: constraints that touch at an endpoint are decided by whether the
\* endpoint is included: for every version w, "= w" and "< w" conflict,
\* while "<= w" and ">= w" overlap.
C15_EndpointDecides ==
    /\ (Touching("Exact", "LessThan") /\ conflict # <<>>) => conflict = <<TRUE>>
    /\ (Touching("LessThanOrEqual", "GreaterThanOrEqual") /\ overlap # <<>>)
            => overlap = <<TRUE>>

\* the set of NodeIds of a graph
NodeIdSet(g) == {g.nodes[i].id : i \in DOMAIN g.nodes}

\* no two nodes of the graph carry the same NodeId
UniqueNodeIds(g) ==
    \A i, j \in DOMAIN g.nodes : g.nodes[i].id = g.nodes[j].id => i = j

\* C6: after any sequence of add_module, add_provider, add_runtime and merge
\* calls, no two nodes of a graph carry the same NodeId.
C6_NodeIdsUnique ==
    \A i \in DOMAIN graphs : UniqueNodeIds(graphs[i])

\* C7: the node set and the edge set of a merge do not depend on the order
\* of the merge nor on how many times a graph is merged in.
C7_MergeOrderIndependent ==
    merged # <<>> =>
        /\ NodeIdSet(merged[1].ab) = NodeIdSet(merged[1].ba)
        /\ TypedEdges(merged[1].ab) = TypedEdges(merged[1].ba)
        /\ NodeIdSet(merged[1].aa) = NodeIdSet(graphs[1])
        /\ TypedEdges(merged[1].aa) = TypedEdges(graphs[1])
        /\ NodeIdSet(merged[1].abb) = NodeIdSet(merged[1].ab)
        /\ TypedEdges(merged[1].abb) = TypedEdges(merged[1].ab)

\* C8: add_edge adds the edge (from, to, type) exactly when both endpoints
\* exist and no edge of the same type already connects them, so edges of
\* different types coexist on one pair; merge carries every edge of the
\* other graph over under the same rule.
C8_TypedEdgeAdded ==
    /\ last_edge # <<>> =>
        LET call == last_edge[1]
        IN /\ call.returned = (call.endpoints /\ ~call.same_type)
           /\ (call.endpoints =>
                <<call.from, call.to, call.edge_type>>
                    \in TypedEdges(graphs[call.graph]))
    /\ merged # <<>> =>
        (UniqueNodeIds(graphs[1]) /\ UniqueNodeIds(graphs[2]) =>
            TypedEdges(graphs[2]) \subseteq TypedEdges(merged[1].ab))

\* the index pairs i < j of one group whose two constraints conflict
ConflictPairs(refs, keys) ==
    {pr \in (DOMAIN refs) \X (DOMAIN refs) :
        /\ pr[1] < pr[2]
        /\ keys[pr[1]] = keys[pr[2]]
        /\ refs[pr[1]].version_constraint # <<>>
        /\ refs[pr[2]].version_constraint # <<>>
        /\ conflicts_with(refs[pr[1]].version_constraint[1].ranges,
                          refs[pr[2]].version_constraint[1].ranges)}

\* what the finding of a conflicting pair must say
ConflictSite(refs, keys, pr) ==
    [source |-> keys[pr[1]],
     location |-> <<LocationOf(refs[pr[1]])>>,
     related_locations |-> <<LocationOf(refs[pr[2]])>>,
     severity |-> IF refs[pr[1]].repository = refs[pr[2]].repository
                  THEN "Error" ELSE "Warning"]

\* what a DRIFT001 finding says
SiteOf(finding) ==
    [source |-> finding.message[1],
     location |-> finding.location,
     related_locations |-> finding.related_locations,
     severity |-> finding.severity]

\* the positions of the DRIFT001 findings of a findings list
Drift001(findings) == {k \in DOMAIN findings : findings[k].code = "DRIFT001"}

\* C9: for every group of modules or providers sharing a canonical source and
\* every index pair i < j of the group whose constraints conflict, the
\* analyser emits exactly one DRIFT001 finding with primary location site i
\* and related location site j, at Error when both sites share the
\* repository and at Warning otherwise: the DRIFT001 findings and the
\* conflicting pairs agree, site by site, in number.
C9_OneConflictFindingPerPair ==
    analysis # <<>> =>
        LET findings == analysis[1].findings
            mkeys == ModuleKeys(all_modules)
            pkeys == ProviderKeys(all_providers)
            mpairs == ConflictPairs(all_modules, mkeys)
            ppairs == ConflictPairs(all_providers, pkeys)
            sites == {ConflictSite(all_modules, mkeys, pr) : pr \in mpairs}
                        \cup {ConflictSite(all_providers, pkeys, pr) : pr \in ppairs}
                        \cup {SiteOf(findings[k]) : k \in Drift001(findings)}
        IN \A site \in sites :
            Cardinality({k \in Drift001(findings) : SiteOf(findings[k]) = site})
                = Cardinality({pr \in mpairs :
                                ConflictSite(all_modules, mkeys, pr) = site})
                  + Cardinality({pr \in ppairs :
                                ConflictSite(all_providers, pkeys, pr) = site})

\* a group of three with conflicts inside one repository and across two
C9_Witness ==
    /\ analysis # <<>>
    /\ Cardinality(ConflictPairs(all_modules, ModuleKeys(all_modules))) >= 2
    /\ ConflictPairs(all_providers, ProviderKeys(all_providers)) # {}
    /\ \E k \in Drift001(analysis[1].findings) :
        analysis[1].findings[k].severity = "Error"
    /\ \E k \in Drift001(analysis[1].findings) :
        analysis[1].findings[k].severity = "Warning"

\* the name a finding of the missing, risky or broad pass is about
FindingName(finding) ==
    IF finding.code \in {"DRIFT002", "DRIFT004"} THEN finding.message[2]
    ELSE finding.message[1]

\* C10: no finding of the missing-constraint pass (DRIFT002), the
\* risky-pattern pass (DRIFT003/005/006/007) or the broad-constraint pass
\* (DRIFT004) is emitted for a module whose source is Local, with or without
\* a version constraint.
C10_LocalModulesExempt ==
    analysis # <<>> =>
        \A i \in DOMAIN all_modules :
            is_local(all_modules[i].source) =>
                ~\E k \in DOMAIN analysis[1].findings :
                    LET finding == analysis[1].findings[k]
                    IN /\ finding.code \in {"DRIFT002", "DRIFT003", "DRIFT004",
                                            "DRIFT005", "DRIFT006", "DRIFT007"}
                       /\ finding.location = <<LocationOf(all_modules[i])>>
                       /\ FindingName(finding) = all_modules[i].name

\* C11: running the analysis twice over the same module and provider lists
\* yields the same findings in the same order.
C11_FindingsOrderStable ==
    (analysis # <<>> /\ rerun # <<>>) =>
        analysis[1].findings = rerun[1].findings

\* the batch came through an entry point that scans repositories by URL
RepositoryBatch ==
    batch.entry \in {"scan_repositories", "scan_vcs_organization"}

\* C1: when several repositories are scanned in one batch, conflict analysis
\* runs over the references of all repositories together: two modules with
\* the same canonical source in different repositories whose constraints
\* conflict yield exactly one DRIFT001 finding at Warning in the returned
\* result, with primary location in the first and related location in the
\* second.
C1_CrossRepoConflictReported ==
    (outcome # <<>> /\ outcome[1].ok /\ RepositoryBatch) =>
        LET result == outcome[1].value
            findings == result.analysis.findings
            keys == ModuleKeys(result.modules)
            cross == {pr \in ConflictPairs(result.modules, keys) :
                        result.modules[pr[1]].repository
                            # result.modules[pr[2]].repository}
        IN \A pr \in cross :
            Cardinality({k \in Drift001(findings) :
                            SiteOf(findings[k])
                                = ConflictSite(result.modules, keys, pr)})
                = Cardinality({q \in cross :
                                ConflictSite(result.modules, keys, q)
                                    = ConflictSite(result.modules, keys, pr)})

\* the scan of a repository fails: the clone fails (when the batch clones),
\* the directory is missing, or a file fails with an error the walk does
\* not skip
RepoFails(cfg, repo) ==
    \/ RepositoryBatch /\ repo.clone_error # <<>>
    \/ ~repo.dir.exists
    \/ \E i \in DOMAIN repo.dir.files :
        LET parsed == parse_file(cfg.continue_on_error, repo.dir.files[i],
                                 <<repo.name>>)
        IN ~parsed.ok /\ ~(cfg.continue_on_error /\ is_recoverable(parsed.error))

\* C4: when continue_on_error is set, the failure of a single repository
\* (clone or scan) never aborts a multi-repository batch: the remaining
\* repositories are still scanned and the batch returns a ScanResult.
C4_SingleFailureDoesNotAbort ==
    (/\ outcome # <<>>
     /\ RepositoryBatch
     /\ batch.cfg.continue_on_error
     /\ Len(batch.repos) >= 2
     /\ Cardinality({i \in DOMAIN batch.repos :
                        RepoFails(batch.cfg, batch.repos[i])}) = 1) =>
        /\ outcome[1].ok
        /\ \A i \in DOMAIN batch.repos :
            ~RepoFails(batch.cfg, batch.repos[i]) =>
                \A k \in DOMAIN batch.repos[i].dir.files :
                    parse_file(TRUE, batch.repos[i].dir.files[k],
                               <<batch.repos[i].name>>).ok =>
                        \E f \in DOMAIN outcome[1].value.files_scanned :
                            outcome[1].value.files_scanned[f]
                                = batch.repos[i].dir.files[k].path

\* the warnings collection of a ScanResult
Warnings(scan_result) ==
    IF "warnings" \in DOMAIN scan_result THEN scan_result.warnings ELSE <<>>

\* C5: under continue_on_error, every file or repository skipped because of
\* a recoverable error appears as an entry in the warnings collection of the
\* ScanResult the run returns.
C5_SkipsListedAsWarnings ==
    (outcome # <<>> /\ outcome[1].ok /\ batch.cfg.continue_on_error) =>
        LET warnings == Warnings(outcome[1].value)
        IN \A i \in DOMAIN batch.repos :
            LET repo == batch.repos[i]
            IN IF RepoFails(batch.cfg, repo)
               THEN \E w \in DOMAIN warnings :
                        warnings[w].repository = <<repo.name>>
               ELSE \A k \in DOMAIN repo.dir.files :
                        ~parse_file(TRUE, repo.dir.files[k], <<repo.name>>).ok =>
                            \E w \in DOMAIN warnings :
                                warnings[w].file = repo.dir.files[k].path

\* the files of the batch, each with the name of its repository
BatchFiles ==
    UNION {{[file |-> batch.repos[i].dir.files[k],
             repository |-> <<batch.repos[i].name>>] :
                k \in DOMAIN batch.repos[i].dir.files} : i \in DOMAIN batch.repos}

\* the elements of a list
Range(list) == {list[i] : i \in DOMAIN list}

\* C12: every required_version attribute found in a file of a scanned
\* directory yields a RuntimeRef (name terraform, the parsed constraint) in
\* the runtime list of the scan, so that it reaches the deprecation pass.
C12_RequiredVersionYieldsRuntime ==
    (outcome # <<>> /\ outcome[1].ok) =>
        \A bf \in BatchFiles :
            bf.file.path \in Range(outcome[1].value.files_scanned) =>
                \A r \in DOMAIN bf.file.runtimes :
                    ConstraintParse(bf.file.runtimes[r]) # <<>> =>
                        RuntimeRef("terraform", ConstraintParse(bf.file.runtimes[r])[1],
                                   bf.file.path, bf.repository)
                            \in Range(outcome[1].value.runtimes)

\* the module blocks of a file whose version attribute is not a constraint
BadVersionBlocks(file) ==
    {i \in DOMAIN file.modules :
        /\ file.modules[i].source # <<>>
        /\ file.modules[i].version # <<>>
        /\ ConstraintParse(file.modules[i].version[1]) = <<>>}

\* every file of the batch is readable HCL whose module blocks have a source
OnlyVersionFailures ==
    \A bf \in BatchFiles :
        /\ bf.file.error = <<>>
        /\ \A i \in DOMAIN bf.file.modules : bf.file.modules[i].source # <<>>

\* C13: when the version attribute of a module block fails to parse as a
\* constraint, the scan records a warning and still emits that module
\* without a constraint; the failure discards neither the module nor the
\* other blocks of the file.
C13_BadVersionKeepsModule ==
    (outcome # <<>> /\ batch.entry = "scan_paths" /\ OnlyVersionFailures) =>
        \A bf \in BatchFiles :
            BadVersionBlocks(bf.file) # {} =>
                /\ outcome[1].ok
                /\ \A i \in DOMAIN bf.file.modules :
                    \E m \in Range(outcome[1].value.modules) :
                        /\ m.name = bf.file.modules[i].name
                        /\ m.source = bf.file.modules[i].source[1]
                        /\ m.file_path = bf.file.path
                        /\ (i \in BadVersionBlocks(bf.file) =>
                                m.version_constraint = <<>>)
                /\ \A i \in DOMAIN bf.file.providers :
                    \E q \in Range(outcome[1].value.providers) :
                        /\ q.name = bf.file.providers[i].name
                        /\ q.file_path = bf.file.path
                /\ \E w \in DOMAIN Warnings(outcome[1].value) :
                    Warnings(outcome[1].value)[w].file = bf.file.path

\* the last call was clone_with_cache
EnsureDone == done # <<>> /\ done[1].op = "ensure"

\* the cache entry of the url of a call, before the call
EntryBefore(call) == call.before[cache_key(call.url)]

\* before the call the entry directory and its metadata existed and
\* now - last_updated < fresh_threshold
FreshEntry(call) ==
    /\ EntryBefore(call).tree # <<>>
    /\ EntryBefore(call).meta # <<>>
    /\ call.now - EntryBefore(call).meta[1].last_updated < fresh_threshold_seconds

\* C16: if the entry directory and its metadata exist and now - last_updated
\* < fresh_threshold, the call performs no fetch and no clone and changes
\* only last_accessed in the metadata: head_sha, url, branch, last_updated
\* and the working tree stay unchanged, and the entry path is returned.
C16_FreshHitOnlyTouches ==
    (EnsureDone /\ FreshEntry(done[1])) =>
        LET call == done[1]
            key == cache_key(call.url)
        IN /\ ~call.fetched /\ ~call.cloned /\ ~call.removed
           /\ call.result = Ok(get_cache_path(call.url))
           /\ disk[key].tree = EntryBefore(call).tree
           /\ disk[key].meta # <<>>
           /\ [disk[key].meta[1] EXCEPT !.last_accessed = 0]
                = [EntryBefore(call).meta[1] EXCEPT !.last_accessed = 0]
           /\ \A other \in CacheKeys \ {key} : disk[other] = call.before[other]

\* a fresh hit on an entry behind its remote, whose last_accessed moved
C16_Witness ==
    /\ EnsureDone
    /\ FreshEntry(done[1])
    /\ disk[cache_key(done[1].url)].meta[1].last_accessed
            > EntryBefore(done[1]).meta[1].last_accessed
    /\ EntryBefore(done[1]).meta[1].head_sha # done[1].remote_sha

\* before the call the entry existed and was stale, and its fetch failed
StaleFetchFailed(call) ==
    /\ EntryBefore(call).tree # <<>>
    /\ EntryBefore(call).meta # <<>>
    /\ call.now - EntryBefore(call).meta[1].last_updated >= fresh_threshold_seconds
    /\ call.fetch_failed

CleanupDone == done # <<>> /\ done[1].op = "cleanup"

\* the entries a cleanup call removed
Evicted(call) == CollectedEntries(call.before) \ CollectedEntries(disk)

\* at most max_entries entries are left, and no removed entry was accessed
\* later than a surviving one
KeepsNewest(call) ==
    /\ Cardinality(CollectedEntries(disk)) <= call.max_entries
    /\ \A gone \in Evicted(call), kept \in CollectedEntries(disk) :
        call.before[gone].meta[1].last_accessed <= disk[kept].meta[1].last_accessed

Excess(call) ==
    IF Cardinality(CollectedEntries(call.before)) > call.max_entries
    THEN Cardinality(CollectedEntries(call.before)) - call.max_entries
    ELSE 0

C19_OneEnsurePerKey ==
    \A i, j \in DOMAIN tasks.futures :
        (/\ i # j
         /\ tasks.futures[i].phase = "cloning"
         /\ tasks.futures[j].phase = "cloning")
            => cache_key(tasks.futures[i].url) # cache_key(tasks.futures[j].url)

\* C20: during a multi-repository scan the number of repository tasks (clone
\* plus parse) in flight at any time never exceeds the configured
\* parallelism limit.
C20_InFlightWithinLimit ==
    Cardinality(InFlight) <= max_concurrent

\* a status RateLimitedClient::request retries on
Retryable(status) == is_server_error(status) \/ status = 429

\* the requests sent for a page
SendsOf(page) == {k \in DOMAIN discovery.sent : discovery.sent[k].page = page}

\* C21: a discovery API request that receives a 5xx or 429 response is
\* retried, at most max_retries times with exponentially growing delay, and
\* a request that receives any other non-2xx response fails without retry;
\* this holds for every page request of every platform client.  So a call
\* that has returned because of a 5xx or 429 answer (every request it sent
\* was answered) has sent that request max_retries + 1 times, no request is sent more often than that, the
\* delays between the sends of one request double, and any other failing
\* status is the only response to its request.
C21_RetryOn5xxAnd429 ==
    \A k \in DOMAIN discovery.sent :
        LET sends == SendsOf(discovery.sent[k].page)
            status == discovery.sent[k].status
        IN /\ Cardinality(sends) <= max_retries + 1
           /\ (/\ Retryable(status) /\ k = Len(discovery.sent)
               /\ discovery.result # <<>>
               /\ discovery.attempts = Len(discovery.sent))
                => Cardinality(sends) = max_retries + 1
           /\ (~Retryable(status) /\ ~is_success(status))
                => (k = Len(discovery.sent) /\ discovery.result # <<>>)
           /\ discovery.entry = "get"
                => \A n \in DOMAIN discovery.slept :
                        discovery.slept[n] = delay_ms * backoff_multiplier ^ (n - 1)

\* the file at the cache path is a complete document
CompleteFile == cache_file # <<>> /\ from_str(cache_file[1]) # <<>>

\* C22: the discovery cache file is written atomically: a crash at any
\* point during save leaves either the previous complete file or the new
\* complete file at the cache path, never a partially written one.
C22_CrashLeavesCompleteFile ==
    (discovery.phase = "crashed" /\ cache_file # <<>>) => CompleteFile

\* the scan of the repository's directory meets an error that is not
\* recoverable: the directory is missing or a file fails with such an error
NonRecoverableIn(repo) ==
    /\ RepositoryBatch => repo.clone_error = <<>>
    /\ \/ ~repo.dir.exists
       \/ \E i \in DOMAIN repo.dir.files :
            LET parsed == parse_file(TRUE, repo.dir.files[i], <<repo.name>>)
            IN ~parsed.ok /\ ~is_recoverable(parsed.error)

\* C23: a non-recoverable error (I/O permission failure, file or directory
\* not found at the scan root) aborts the run even when continue_on_error is
\* set; only recoverable kinds are skipped.
C23_NonRecoverableAborts ==
    (/\ outcome # <<>>
     /\ batch.cfg.continue_on_error
     /\ \E i \in DOMAIN batch.repos : NonRecoverableIn(batch.repos[i]))
        => ~outcome[1].ok

\* the required_providers entries of the batch whose version is "*", each
\* with the path of its file
WildcardProviders ==
    UNION {{[name |-> bf.file.providers[i].name, file |-> bf.file.path] :
                i \in {k \in DOMAIN bf.file.providers :
                        /\ bf.file.providers[k].version # <<>>
                        /\ WILDCARD_PATTERN(bf.file.providers[k].version[1])}} :
            bf \in BatchFiles}

\* the findings of a scan with the given code about the named reference of
\* the given file
FindingsAbout(scan_result, code, name, file) ==
    {k \in DOMAIN scan_result.analysis.findings :
        LET finding == scan_result.analysis.findings[k]
        IN /\ finding.code = code
           /\ finding.message = <<name>>
           /\ finding.location[1].file = file}

\* C24: a provider declared with version = "*" is extracted and analysed,
\* producing exactly one DRIFT003 Warning for it and no DRIFT007.
C24_WildcardProviderFlagged ==
    (outcome # <<>> /\ batch.entry = "scan_paths" /\ Len(batch.repos) = 1) =>
        \A wp \in WildcardProviders :
            /\ outcome[1].ok
            /\ \E q \in Range(outcome[1].value.providers) :
                    q.name = wp.name /\ q.file_path = wp.file
            /\ Cardinality(FindingsAbout(outcome[1].value, "DRIFT003",
                                         wp.name, wp.file)) = 1
            /\ \A k \in FindingsAbout(outcome[1].value, "DRIFT003", wp.name, wp.file) :
                    outcome[1].value.analysis.findings[k].severity = "Warning"
            /\ FindingsAbout(outcome[1].value, "DRIFT007", wp.name, wp.file) = {}

\* C25: a Git SSH source git@host:owner/repo.git[?ref=R][//subdir]
\* canonicalises to host/owner/repo.git[?ref=R][//subdir]: the canonical
\* identifier used for grouping includes the repository path, not only the
\* host.
C25_SshCanonicalHasPath ==
    (/\ source_text.form = "git@"
     /\ source_parsed # <<>>
     /\ source_parsed[1].id # <<>>)
        => source_parsed[1].id[1]
            = <<<<source_text.host, source_text.owner, source_text.repo, ".git">>,
                source_text.ref_, source_text.subdir>>

\* everything the receiver held before a merge is in the result unchanged:
\* its nodes at their indices, its node index, its edges and its VCS
\* metadata
Preserved(before, after) ==
    /\ Len(after.nodes) >= Len(before.nodes)
    /\ \A k \in DOMAIN before.nodes : after.nodes[k] = before.nodes[k]
    /\ \A id \in DOMAIN before.node_index :
            /\ id \in DOMAIN after.node_index
            /\ after.node_index[id] = before.node_index[id]
    /\ Len(after.edges) >= Len(before.edges)
    /\ \A k \in DOMAIN before.edges : after.edges[k] = before.edges[k]
    /\ \A id \in DOMAIN before.vcs_metadata :
            /\ id \in DOMAIN after.vcs_metadata
            /\ after.vcs_metadata[id] = before.vcs_metadata[id]

\* the result holds one node per NodeId of the receiver
OneNodePerId(before, after) ==
    \A id \in DOMAIN before.node_index :
        Cardinality({k \in DOMAIN after.nodes : after.nodes[k].id = id}) = 1

\* C26: merging another graph into a graph never removes or alters what the
\* receiving graph already holds: a node whose NodeId is already present
\* keeps the receiver's data (first insertion wins), existing edges remain,
\* and VCS metadata already recorded for a node is not overwritten (metadata
\* is copied only for nodes that had none).
C26_MergeKeepsReceiver ==
    merged # <<>> =>
        /\ Preserved(graphs[1], merged[1].ab)
        /\ OneNodePerId(graphs[1], merged[1].ab)
        /\ Preserved(graphs[2], merged[1].ba)
        /\ OneNodePerId(graphs[2], merged[1].ba)
        /\ \A id \in DOMAIN graphs[2].vcs_metadata \ DOMAIN graphs[1].vcs_metadata :
                /\ id \in DOMAIN merged[1].ab.vcs_metadata
                /\ merged[1].ab.vcs_metadata[id] = graphs[2].vcs_metadata[id]

\* two graphs that hold the same module NodeId with different data and
\* different VCS identifiers have been merged
C26_Witness ==
    /\ merged # <<>>
    /\ \E id \in DOMAIN graphs[1].node_index \cap DOMAIN graphs[2].node_index :
        /\ graphs[1].nodes[graphs[1].node_index[id]]
            # graphs[2].nodes[graphs[2].node_index[id]]
        /\ id \in DOMAIN graphs[1].vcs_metadata \cap DOMAIN graphs[2].vcs_metadata
        /\ graphs[1].vcs_metadata[id] # graphs[2].vcs_metadata[id]
    /\ Len(graphs[1].edges) > 0

\* the edges of the given type in the built graph, as pairs of nodes
BuiltEdges(edge_type) ==
    {[from |-> graphs[1].nodes[graphs[1].edges[k].source],
      to |-> graphs[1].nodes[graphs[1].edges[k].target]] :
        k \in {e \in DOMAIN graphs[1].edges : graphs[1].edges[e].weight = edge_type}}

\* C27: a LocalModuleRef edge goes from a Local module only to other modules
\* whose block name equals the final path segment of the local module's
\* path; no module ever gets a LocalModuleRef edge to itself.
C27_LocalRefToOthersOnly ==
    graphs # <<>> =>
        \A edge \in BuiltEdges("LocalModuleRef") :
            /\ edge.from.kind = "Module"
            /\ is_local(edge.from.ref.source)
            /\ edge.to.kind = "Module"
            /\ edge.to.ref.name
                = edge.from.ref.source.path[Len(edge.from.ref.source.path)]
            /\ edge.to.id # edge.from.id

\* C30: in a graph built from several repositories, every
\* ModuleRequiresProvider edge connects a module to the provider node of the
\* module's own repository whenever that repository declares the inferred
\* provider; it never points at another repository's provider node instead.
C30_ProviderOfOwnRepository ==
    graphs # <<>> =>
        \A edge \in BuiltEdges("ModuleRequiresProvider") :
            (\E i \in DOMAIN all_providers :
                /\ all_providers[i].repository = edge.from.ref.repository
                /\ <<qualified_source(all_providers[i])>>
                    = infer_provider_for_module(build_provider_map(all_providers),
                                                edge.from.ref))
                => edge.to.ref.repository = edge.from.ref.repository

\* the summary of a scan result counts what the lists of the result hold
SummaryAgrees(scan_result) ==
    LET summary == scan_result.analysis.summary
        findings == scan_result.analysis.findings
    IN /\ summary.total_modules = Len(scan_result.modules)
       /\ summary.total_providers = Len(scan_result.providers)
       /\ summary.total_files = Len(scan_result.files_scanned)
       /\ summary.unique_module_sources
            = Cardinality({canonical_id(scan_result.modules[i].source) :
                                i \in DOMAIN scan_result.modules})
       /\ summary.unique_provider_sources
            = Cardinality({qualified_source(scan_result.providers[i]) :
                                i \in DOMAIN scan_result.providers})
       /\ \A i \in DOMAIN findings :
            /\ findings[i].severity \in DOMAIN summary.findings_by_severity
            /\ summary.findings_by_severity[findings[i].severity]
                = CountBy(findings, "severity", findings[i].severity)

\* every entry of the lists of one result is in the merged result
Carries(merged_result, one) ==
    /\ Range(one.modules) \subseteq Range(merged_result.modules)
    /\ Range(one.providers) \subseteq Range(merged_result.providers)
    /\ Range(one.runtimes) \subseteq Range(merged_result.runtimes)
    /\ Range(one.files_scanned) \subseteq Range(merged_result.files_scanned)
    /\ Range(one.analysis.findings) \subseteq Range(merged_result.analysis.findings)

\* C29: merging per-repository ScanResults loses nothing: the merged result
\* contains every module, provider and runtime reference, every scanned
\* file and every finding of each merged result, and its summary counts
\* agree with the merged lists.
C29_MergeLosesNothing ==
    (batch.entry = "scan_repositories" /\ outcome # <<>> /\ outcome[1].ok) =>
        /\ \A i \in DOMAIN progress.results :
                Carries(outcome[1].value, progress.results[i][1].value)
        /\ SummaryAgrees(outcome[1].value)

\* C28: whenever clone_with_cache returns Ok, the metadata file of the entry
\* exists and the head_sha in it is the HEAD commit of the working tree at
\* the returned path, after any sequence of calls, fetch failures, clone
\* failures and metadata-write failures.
C28_MetadataMatchesHead ==
    (EnsureDone /\ done[1].result.ok) =>
        LET key == cache_key(done[1].url)
        IN /\ done[1].result.value = get_cache_path(done[1].url)
           /\ disk[key].tree # <<>>
           /\ disk[key].meta # <<>>
           /\ disk[key].meta[1].head_sha = disk[key].tree[1]

====
